---- MODULE Spec2Model ----
(***************************************************************************)
(* Session routing and execution-coordination core of the gateway:         *)
(*   - the session store and its RPC handlers (sessions.patch / reset /    *)
(*     delete / compact of the gateway, and the bridge's sessions.* and    *)
(*     chat.send handlers),                                                *)
(*   - the reply-turn coordinator (runReplyAgent): steering, follow-up     *)
(*     queueing, block streaming,                                          *)
(*   - the cron timer (onTimer / executeJob),                              *)
(*   - the pure functions of routing, model selection, scheduling and      *)
(*     store loading, each applied to arguments drawn at the start.        *)
(* Each part has its own specification over its own variables; the other   *)
(* variables stay at their initial values.                                 *)
(***************************************************************************)
EXTENDS Integers, Sequences, FiniteSets, TLC

VARIABLES
    \* ---- session store ----
    store,          \* persisted session store: store key -> entry
    config,         \* the configuration loadConfig() returns
    nextId,         \* next value randomUUID() hands out
    clock,          \* Date.now(), one tick per handled request
    runs,           \* agentCommand runs in flight, started by the bridge
    dedupe,         \* idempotency keys with a cached chat.send response
    turn,           \* the reply turn in flight with its store snapshot
    resp,           \* the last handled request and its response
    \* ---- reply-turn coordinator, one queue key ----
    arrived,        \* inbound turns received so far; the turns are 1..arrived
    active,         \* engine invocations in flight for the session
    injected,       \* turns queued into the active run by queueEmbeddedPiMessage
    queue,          \* follow-up queue of the queue key
    draining,       \* the follow-up drain of the queue key is running
    started,        \* turns in the order the engine was invoked for them
    lastCall,       \* the last runReplyAgent call: its parameters and what it did
    \* ---- block streaming of one run ----
    blockStreamingEnabled,
    streamedPayloadKeys,        \* keys of the blocks whose delivery completed
    pendingStreamedPayloadKeys, \* keys of the blocks waiting in the chain
    blockReplyChain,            \* blocks awaiting delivery, in receipt order
    sending,                    \* the head of the chain is with the channel
    blockReplyAborted,
    didStreamBlockReply,
    blocks,                     \* onBlockReply calls of the engine so far
    runResult,                  \* how far the run is, and the payloads it returned
    channel,        \* what reached the channel, in order
    \* ---- cron ----
    nowMs,          \* state.deps.nowMs()
    jobsFile,       \* the persisted job store
    cronStore,      \* state.store, the job store as loaded
    cronRunning,    \* state.running
    cronLocked,     \* locked(): the mutex of the cron operations is held
    service,        \* down, recovering missed jobs, or up
    tick,           \* the timer tick in progress
    runner,         \* the executeJob in progress
    executing,      \* per job id, the executions in flight
    timer,          \* state.timer, while its timeout is pending
    \* ---- pure functions ----
    fnArgs,         \* the function applied and its arguments
    fnResult,       \* what it returned, once it has
    \* ---- chat runs of the bridge ----
    chatAbortControllers,   \* ctx.chatAbortControllers: run id -> controller
    chatRunBuffers,         \* run ids that have a key in ctx.chatRunBuffers
    chatDeltaSentAt,        \* run ids that have a key in ctx.chatDeltaSentAt
    abortSignalled,         \* the controllers whose abort() was called
    chatBroadcasts,         \* ctx.broadcast("chat", ...) payloads, in order
    chatBridgeSends,        \* ctx.bridgeSendToSession(...) payloads, in order
    lastAbort               \* the parameters of the last chat.abort request

storeVars == <<store, config, nextId, clock, runs, dedupe, turn, resp>>

coordVars == <<arrived, active, injected, queue, draining, started, lastCall>>

streamVars == <<blockStreamingEnabled, streamedPayloadKeys, pendingStreamedPayloadKeys,
                blockReplyChain, sending, blockReplyAborted, didStreamBlockReply,
                blocks, runResult, channel>>

cronVars == <<nowMs, jobsFile, cronStore, cronRunning, cronLocked, service, tick,
              runner, executing, timer>>

pureVars == <<fnArgs, fnResult>>

chatVars == <<chatAbortControllers, chatRunBuffers, chatDeltaSentAt, abortSignalled,
              chatBroadcasts, chatBridgeSends, lastAbort>>

vars == <<storeVars, coordVars, streamVars, cronVars, pureVars, chatVars>>

(***************************************************************************)
(* Bounds.                                                                 *)
(***************************************************************************)
MaxOps == 3             \* requests handled in one behaviour of the store
MaxRuns == 1            \* agentCommand runs in flight at once
MaxPatchFields == 2     \* fields present in one sessions.patch request

(***************************************************************************)
(* Strings as sequences of characters, so that trim() is computed.         *)
(***************************************************************************)
RECURSIVE TrimLeft(_)
TrimLeft(s) == IF s # <<>> /\ Head(s) = " " THEN TrimLeft(Tail(s)) ELSE s

RECURSIVE TrimRight(_)
TrimRight(s) ==
    IF s # <<>> /\ s[Len(s)] = " " THEN TrimRight(SubSeq(s, 1, Len(s) - 1)) ELSE s

Trim(s) == TrimRight(TrimLeft(s))

LowerSeg(seg) ==
    CASE seg = "Subagent" -> "subagent"
      [] seg = "SUBAGENT" -> "subagent"
      [] OTHER -> seg

(***************************************************************************)
(* Session keys.  A key "agent:main:dm:p" is the sequence of its           *)
(* colon-separated segments <<"agent", "main", "dm", "p">>.                *)
(***************************************************************************)
KEmpty      == <<>>
KMain       == <<"agent", "main", "main">>
KLegacyMain == <<"main">>
KSub        == <<"agent", "main", "Subagent", "x">>

StoreKeys   == {KMain, KLegacyMain, KSub}
RequestKeys == StoreKeys \cup {KEmpty}

\* raw.split(":").filter(Boolean)
NonEmptySegs(key) == SelectSeq(key, LAMBDA seg : seg # "")

NoParse == [ok |-> FALSE, agentId |-> "", rest |-> <<>>]

\* seg.trim() of a segment that is a word or all blanks
TrimSeg(seg) == IF seg = " " THEN "" ELSE seg

\* key.trim(): the blanks before the first colon and after the last go
TrimKey(key) ==
    [i \in 1..Len(key) |-> IF i \in {1, Len(key)} THEN TrimSeg(key[i]) ELSE key[i]]

\* !raw
IsEmptyKey(raw) == raw \in {<<>>, <<"">>}

parseAgentSessionKey(key) ==
    LET raw   == TrimKey(key)
        parts == NonEmptySegs(raw)
    IN  IF IsEmptyKey(raw) THEN NoParse
        ELSE IF Len(parts) < 3 THEN NoParse
        ELSE IF parts[1] # "agent" THEN NoParse
        ELSE IF TrimSeg(parts[2]) = "" THEN NoParse
        ELSE [ok |-> TRUE, agentId |-> TrimSeg(parts[2]),
              rest |-> SubSeq(parts, 3, Len(parts))]

\* classifySessionKeyShape(sessionKey): missing for an empty or blank key,
\* agent for a well-formed agent key (at least three segments, none empty),
\* malformed_agent for any other key that starts with "agent:", and
\* legacy_or_alias for the rest.
classifySessionKeyShape(key) ==
    LET raw == TrimKey(key) IN
    IF IsEmptyKey(raw) THEN "missing"
    ELSE IF /\ Len(raw) >= 3
            /\ raw[1] = "agent"
            /\ \A i \in 1..Len(raw) : TrimSeg(raw[i]) # "" THEN "agent"
    ELSE IF Len(raw) >= 2 /\ raw[1] = "agent" THEN "malformed_agent"
    ELSE "legacy_or_alias"

\* s.toLowerCase().startsWith("subagent:") on a sequence of segments
StartsWithSubagent(segs) == Len(segs) >= 2 /\ LowerSeg(segs[1]) = "subagent"

isSubagentSessionKey(key) ==
    IF key = <<>> THEN FALSE
    ELSE IF StartsWithSubagent(key) THEN TRUE
    ELSE LET parsed == parseAgentSessionKey(key) IN
         parsed.ok /\ StartsWithSubagent(parsed.rest)

\* resolveMainSessionKey(cfg): the primary key agent:<agentId>:<mainKey>
MainSessionKey == KMain

\* resolveGatewaySessionStoreTarget({cfg, key}): the canonical key of a
\* request key and the store keys an entry of it may be filed under
\* (canonical key first, then the legacy alias).
ResolveTarget(key) ==
    LET canonical == IF key = KLegacyMain THEN KMain ELSE key IN
    [canonicalKey |-> canonical,
     storeKeys    |-> IF canonical = KMain THEN <<KMain, KLegacyMain>> ELSE <<canonical>>]

(***************************************************************************)
(* Session entries.  A missing field is None (strings) or NoNum (numbers).*)
(***************************************************************************)
None  == "none"
NoNum == -1

NoEntry ==
    [present |-> FALSE, sessionId |-> 0, updatedAt |-> 0, spawnedBy |-> None,
     thinkingLevel |-> None, verboseLevel |-> None, reasoningLevel |-> None,
     responseUsage |-> None, elevatedLevel |-> None,
     providerOverride |-> None, modelOverride |-> None,
     sendPolicy |-> None, groupActivation |-> None,
     model |-> None, contextTokens |-> NoNum,
     inputTokens |-> NoNum, outputTokens |-> NoNum, totalTokens |-> NoNum,
     systemSent |-> None, abortedLastRun |-> None,
     skillsSnapshot |-> None, lastProvider |-> None, lastTo |-> None]

\* { sessionId: randomUUID(), updatedAt: now }
NewEntry(id, now) == [NoEntry EXCEPT !.present = TRUE, !.sessionId = id, !.updatedAt = now]

\* An entry as earlier turns of the reply pipeline leave it in the store file.
SeedEntry(id) ==
    [NoEntry EXCEPT !.present = TRUE, !.sessionId = id, !.updatedAt = 0,
                    !.thinkingLevel = "low", !.sendPolicy = "deny",
                    !.model = "gpt-4", !.contextTokens = 8,
                    !.inputTokens = 2, !.outputTokens = 1, !.totalTokens = 3,
                    !.systemSent = "true", !.abortedLastRun = "true",
                    !.skillsSnapshot = "skills-v1",
                    !.lastProvider = "whatsapp", !.lastTo = "+1555"]

(***************************************************************************)
(* Model selection (agents/model-selection.ts).  A raw model string is the *)
(* sequence of its tokens, "/" and " " being tokens of their own:          *)
(* " openai/gpt-4" is <<" ", "openai", "/", "gpt-4">>.                     *)
(***************************************************************************)
RECURSIVE JoinTokens(_)
JoinTokens(toks) == IF toks = <<>> THEN "" ELSE Head(toks) \o JoinTokens(Tail(toks))

LowerTok(tok) ==
    CASE tok = "OpenAI" -> "openai"
      [] tok = "GPT4"   -> "gpt4"
      [] tok = "Z.AI"   -> "z.ai"
      [] tok = "WhatsApp" -> "whatsapp"
      [] tok = "Work"   -> "work"
      [] tok = "Bot"    -> "bot"
      [] OTHER -> tok

RECURSIVE LowerToks(_)
LowerToks(toks) == IF toks = <<>> THEN <<>> ELSE <<LowerTok(Head(toks))>> \o LowerToks(Tail(toks))

\* value.trim().toLowerCase()
normalizeAliasKey(toks) == JoinTokens(LowerToks(Trim(toks)))

modelKey(provider, model) == provider \o "/" \o model

\* The element of a one-element set.  { e(x) : x \in {v} } names the value
\* v as x once, however often e reads it.
Only(S) == CHOOSE x \in S : TRUE

Range(s) == {s[i] : i \in DOMAIN s}

normalizeProviderId(toks) ==
    Only({IF normalized \in {"z.ai", "z-ai"} THEN "zai" ELSE normalized :
            normalized \in {JoinTokens(LowerToks(Trim(toks)))}})

\* trimmed.indexOf("/"), 0 when there is none
RECURSIVE IndexOfSlash(_, _)
IndexOfSlash(toks, i) ==
    IF i > Len(toks) THEN 0
    ELSE IF toks[i] = "/" THEN i
    ELSE IndexOfSlash(toks, i + 1)

NoRef == [ok |-> FALSE, provider |-> "", model |-> ""]

\* parseModelRef once raw is trimmed and the first "/" is located
ParseTrimmedRef(trimmed, slash, defaultProvider) ==
    IF trimmed = <<>> THEN NoRef
    ELSE IF slash = 0
         THEN [ok |-> TRUE, provider |-> normalizeProviderId(<<defaultProvider>>),
               model |-> JoinTokens(trimmed)]
    ELSE Only({IF ref.provider = "" \/ ref.model = "" THEN NoRef ELSE ref :
                 ref \in {[ok |-> TRUE,
                           provider |-> normalizeProviderId(SubSeq(trimmed, 1, slash - 1)),
                           model |-> JoinTokens(Trim(SubSeq(trimmed, slash + 1,
                                                            Len(trimmed))))]}})

parseModelRef(raw, defaultProvider) ==
    Only({ParseTrimmedRef(trimmed, IndexOfSlash(trimmed, 1), defaultProvider) :
            trimmed \in {Trim(raw)}})

\* byAlias of buildModelAliasIndex: the entries of cfg.agent.models that
\* parse and carry an alias, a later entry replacing an earlier one of the
\* same alias key.
RECURSIVE AliasLookup(_, _, _)
AliasLookup(models, defaultProvider, aliasKey) ==
    IF models = <<>> THEN NoRef
    ELSE Only({IF parsed.ok /\ Trim(models[Len(models)].alias) # <<>>
                  /\ normalizeAliasKey(models[Len(models)].alias) = aliasKey
               THEN parsed
               ELSE AliasLookup(SubSeq(models, 1, Len(models) - 1), defaultProvider, aliasKey) :
                 parsed \in {parseModelRef(models[Len(models)].key, defaultProvider)}})

resolveModelRefFromString(raw, defaultProvider, models) ==
    Only({IF trimmed = <<>> THEN NoRef
          ELSE IF IndexOfSlash(trimmed, 1) # 0 THEN parseModelRef(trimmed, defaultProvider)
          ELSE Only({IF aliasMatch.ok THEN aliasMatch
                     ELSE parseModelRef(trimmed, defaultProvider) :
                        aliasMatch \in {AliasLookup(models, defaultProvider,
                                                    normalizeAliasKey(trimmed))}}) :
            trimmed \in {Trim(raw)}})

DEFAULT_PROVIDER == "claude-cli"
DEFAULT_MODEL    == "opus-4.5"

resolveConfiguredModelRef(cfg, defaultProvider, defaultModel) ==
    Only({IF rawModel = <<>>
          THEN [ok |-> TRUE, provider |-> defaultProvider, model |-> defaultModel]
          ELSE Only({IF resolved.ok THEN resolved
                     ELSE [ok |-> TRUE, provider |-> "anthropic",
                           model |-> JoinTokens(rawModel)] :
                        resolved \in {resolveModelRefFromString(rawModel, defaultProvider,
                                                                cfg.models)}}) :
            rawModel \in {Trim(cfg.model)}})

RECURSIVE AllowlistedKeys(_, _, _)
AllowlistedKeys(models, defaultProvider, catalogKeys) ==
    IF models = <<>> THEN {}
    ELSE {modelKey(parsed.provider, parsed.model) :
            parsed \in {x \in {parseModelRef(Head(models).key, defaultProvider)} :
                          x.ok /\ modelKey(x.provider, x.model) \in catalogKeys}}
         \cup AllowlistedKeys(Tail(models), defaultProvider, catalogKeys)

\* AllowedModelSet that keeps an allowlist that allows no catalog model.
AllowedModelSetFailClosed(cfg, catalog, catalogKeys, defaultKey, allowedKeys) ==
    IF cfg.models = <<>>
    THEN [allowAny |-> TRUE, allowedCatalog |-> catalog,
          allowedKeys |-> catalogKeys \cup defaultKey]
    ELSE [allowAny |-> FALSE,
          allowedCatalog |-> {e \in catalog : modelKey(e.provider, e.id) \in allowedKeys},
          allowedKeys |-> allowedKeys]

\* buildAllowedModelSet once the keys of the catalog, of the default model
\* and of the allowlist are computed
AllowedModelSet(cfg, catalog, catalogKeys, defaultKey, allowedKeys) ==
    IF cfg.models = <<>>
       \/ {e \in catalog : modelKey(e.provider, e.id) \in allowedKeys} = {}
    THEN [allowAny |-> TRUE, allowedCatalog |-> catalog,
          allowedKeys |-> catalogKeys \cup defaultKey]
    ELSE [allowAny |-> FALSE,
          allowedCatalog |-> {e \in catalog : modelKey(e.provider, e.id) \in allowedKeys},
          allowedKeys |-> allowedKeys]

\* buildAllowedModelSet that does not add the default model to an allowlist.
buildAllowedModelSetNoDefault(cfg, catalog, defaultProvider, defaultModel) ==
    Only({AllowedModelSet(cfg, catalog, keys[1], keys[2],
                          AllowlistedKeys(cfg.models, defaultProvider, keys[1])) :
            keys \in {<<{modelKey(e.provider, e.id) : e \in catalog},
                        IF defaultModel # "" /\ defaultProvider # ""
                        THEN {modelKey(defaultProvider, defaultModel)} ELSE {}>>}})

buildAllowedModelSet(cfg, catalog, defaultProvider, defaultModel) ==
    Only({AllowedModelSet(cfg, catalog, keys[1], keys[2],
                          AllowlistedKeys(cfg.models, defaultProvider, keys[1]) \cup keys[2]) :
            keys \in {<<{modelKey(e.provider, e.id) : e \in catalog},
                        IF defaultModel # "" /\ defaultProvider # ""
                        THEN {modelKey(defaultProvider, defaultModel)} ELSE {}>>}})

\* The model catalog the gateway loads, and the configurations it runs under.
Catalog == {[provider |-> "openai", id |-> "gpt-4"], [provider |-> "openai", id |-> "gpt-3.5"]}

CfgOpen      == [models |-> <<>>, model |-> <<>>]
CfgAllowlist == [models |-> <<[key |-> <<"openai", "/", "gpt-4">>, alias |-> <<"gpt4">>]>>,
                 model  |-> <<>>]
Configs      == {CfgOpen, CfgAllowlist}

(***************************************************************************)
(* sessions.patch requests.  A field of the request is absent (or          *)
(* undefined), null, or a raw string, given as its token sequence.         *)
(***************************************************************************)
PatchFields ==
    {"spawnedBy", "thinkingLevel", "verboseLevel", "reasoningLevel", "responseUsage",
     "elevatedLevel", "model", "sendPolicy", "groupActivation"}

Absent   == [kind |-> "absent", v |-> <<>>]
NullVal  == [kind |-> "null", v |-> <<>>]
Value(v) == [kind |-> "value", v |-> v]

RawValues(f) ==
    CASE f = "spawnedBy"       -> {<<" ">>, <<"a">>, <<" ", "a">>, <<"b">>}
      [] f = "thinkingLevel"   -> {<<"low">>, <<"off">>, <<"bogus">>}
      [] f = "verboseLevel"    -> {<<"on">>, <<"off">>, <<"bogus">>}
      [] f = "reasoningLevel"  -> {<<"stream">>, <<"off">>, <<"bogus">>}
      [] f = "responseUsage"   -> {<<"on">>, <<"off">>, <<"bogus">>}
      [] f = "elevatedLevel"   -> {<<"on">>, <<"bogus">>}
      [] f = "model"           -> {<<" ">>, <<"GPT4">>, <<"openai", "/", "gpt-4">>,
                                   <<"openai", "/", "gpt-5">>, <<"opus-4.5">>, <<"/", "x">>}
      [] f = "sendPolicy"      -> {<<"allow">>, <<"deny">>, <<"bogus">>}
      [] f = "groupActivation" -> {<<"always">>, <<"bogus">>}

FieldValues(f) == {NullVal} \cup {Value(v) : v \in RawValues(f)}

AbsentRequest == [f \in PatchFields |-> Absent]

\* The requests with at most n of the given fields present.
RECURSIVE RequestsUpTo(_, _)
RequestsUpTo(n, fields) ==
    IF n = 0 THEN {AbsentRequest}
    ELSE LET smaller == RequestsUpTo(n - 1, fields) IN
         smaller \cup
         UNION {{[rf[1] EXCEPT ![rf[2]] = val] : val \in FieldValues(rf[2])} :
                    rf \in {x \in smaller \X fields : x[1][x[2]].kind = "absent"}}

\* The fields the gateway handler and the bridge handler look at.
GatewayFields == PatchFields \ {"elevatedLevel"}
BridgeFields  == PatchFields \ {"responseUsage"}

(***************************************************************************)
(* The normalizers of the level fields: the raw string trimmed and         *)
(* lower-cased, None when it is not one of the accepted values.            *)
(***************************************************************************)
NormalizeIn(raw, accepted) ==
    LET t == JoinTokens(LowerToks(Trim(raw))) IN IF t \in accepted THEN t ELSE None

normalizeThinkLevel(raw)       == NormalizeIn(raw, {"off", "minimal", "low", "medium", "high"})
normalizeVerboseLevel(raw)     == NormalizeIn(raw, {"on", "off"})
normalizeReasoningLevel(raw)   == NormalizeIn(raw, {"on", "off", "stream"})
normalizeUsageDisplay(raw)     == NormalizeIn(raw, {"on", "off"})
normalizeElevatedLevel(raw)    == NormalizeIn(raw, {"on", "off"})
normalizeSendPolicy(raw)       == NormalizeIn(raw, {"allow", "deny"})
normalizeGroupActivation(raw)  == NormalizeIn(raw, {"mention", "always"})

(***************************************************************************)
(* The field steps of sessions.patch.  Each takes the handler's progress   *)
(* r = [ok, err, next, applied]: once a field is rejected (ok = FALSE) the *)
(* handler has responded and the later fields are not looked at.           *)
(***************************************************************************)
Reject(r, msg) == [r EXCEPT !.ok = FALSE, !.err = msg]
Accept(r, next) == [r EXCEPT !.next = next, !.applied = r.applied + 1]

\* PatchSpawnedBy that clears a recorded spawner like any other field.
PatchSpawnedByClearable(r, existing, key, p) ==
    LET raw     == p["spawnedBy"]
        trimmed == JoinTokens(Trim(raw.v))
    IN  IF ~r.ok \/ raw.kind = "absent" THEN r
        ELSE IF raw.kind = "null" THEN Accept(r, [r.next EXCEPT !.spawnedBy = None])
        ELSE IF trimmed = "" THEN Reject(r, "invalid spawnedBy: empty")
        ELSE IF ~isSubagentSessionKey(key)
             THEN Reject(r, "spawnedBy is only supported for subagent:* sessions")
        ELSE IF existing.spawnedBy # None /\ existing.spawnedBy # trimmed
             THEN Reject(r, "spawnedBy cannot be changed once set")
        ELSE Accept(r, [r.next EXCEPT !.spawnedBy = trimmed])

\* PatchSpawnedBy without the check against the stored value.
PatchSpawnedByOverwrite(r, existing, key, p) ==
    LET raw     == p["spawnedBy"]
        trimmed == JoinTokens(Trim(raw.v))
    IN  IF ~r.ok \/ raw.kind = "absent" THEN r
        ELSE IF raw.kind = "null"
             THEN IF existing.spawnedBy # None
                  THEN Reject(r, "spawnedBy cannot be cleared once set")
                  ELSE Accept(r, r.next)
        ELSE IF trimmed = "" THEN Reject(r, "invalid spawnedBy: empty")
        ELSE IF ~isSubagentSessionKey(key)
             THEN Reject(r, "spawnedBy is only supported for subagent:* sessions")
        ELSE Accept(r, [r.next EXCEPT !.spawnedBy = trimmed])

PatchSpawnedBy(r, existing, key, p) ==
    LET raw     == p["spawnedBy"]
        trimmed == JoinTokens(Trim(raw.v))
    IN  IF ~r.ok \/ raw.kind = "absent" THEN r
        ELSE IF raw.kind = "null"
             THEN IF existing.spawnedBy # None
                  THEN Reject(r, "spawnedBy cannot be cleared once set")
                  ELSE Accept(r, r.next)
        ELSE IF trimmed = "" THEN Reject(r, "invalid spawnedBy: empty")
        ELSE IF ~isSubagentSessionKey(key)
             THEN Reject(r, "spawnedBy is only supported for subagent:* sessions")
        ELSE IF existing.spawnedBy # None /\ existing.spawnedBy # trimmed
             THEN Reject(r, "spawnedBy cannot be changed once set")
        ELSE Accept(r, [r.next EXCEPT !.spawnedBy = trimmed])

\* A level field: null deletes it, an unknown value is rejected, "off" is
\* deleted when offDeletes and stored otherwise.
PatchLevel(r, p, field, normalized, offDeletes, msg) ==
    LET raw == p[field] IN
    IF ~r.ok \/ raw.kind = "absent" THEN r
    ELSE IF raw.kind = "null" THEN Accept(r, [r.next EXCEPT ![field] = None])
    ELSE IF normalized = None THEN Reject(r, msg)
    ELSE IF offDeletes /\ normalized = "off" THEN Accept(r, [r.next EXCEPT ![field] = None])
    ELSE Accept(r, [r.next EXCEPT ![field] = normalized])

\* PatchResolvedModel that stores the default model as an override too.
PatchResolvedModelKeepsDefault(r, resolvedDefault, resolved, allowed) ==
    IF ~resolved.ok THEN Reject(r, "invalid model")
    ELSE IF ~allowed.allowAny
            /\ modelKey(resolved.provider, resolved.model) \notin allowed.allowedKeys
         THEN Reject(r, "model not allowed")
    ELSE Accept(r, [r.next EXCEPT !.providerOverride = resolved.provider,
                                  !.modelOverride = resolved.model])

\* The model check once the configured default, the requested model and
\* the allowed set are resolved.
PatchResolvedModel(r, resolvedDefault, resolved, allowed) ==
    IF ~resolved.ok THEN Reject(r, "invalid model")
    ELSE IF ~allowed.allowAny
            /\ modelKey(resolved.provider, resolved.model) \notin allowed.allowedKeys
         THEN Reject(r, "model not allowed")
    ELSE IF resolved.provider = resolvedDefault.provider
            /\ resolved.model = resolvedDefault.model
         THEN Accept(r, [r.next EXCEPT !.providerOverride = None, !.modelOverride = None])
    ELSE Accept(r, [r.next EXCEPT !.providerOverride = resolved.provider,
                                  !.modelOverride = resolved.model])

PatchModel(r, p, cfg) ==
    IF ~r.ok \/ p["model"].kind = "absent" THEN r
    ELSE IF p["model"].kind = "null"
         THEN Accept(r, [r.next EXCEPT !.providerOverride = None, !.modelOverride = None])
    ELSE IF Trim(p["model"].v) = <<>> THEN Reject(r, "invalid model: empty")
    ELSE CHOOSE out \in
            {PatchResolvedModel(r, resolvedDefault, resolved, allowed) :
                <<resolvedDefault, resolved, allowed>> \in
                    {<<d, resolveModelRefFromString(p["model"].v, d.provider, cfg.models),
                       buildAllowedModelSet(cfg, Catalog, d.provider, d.model)>> :
                        d \in {resolveConfiguredModelRef(cfg, DEFAULT_PROVIDER,
                                                         DEFAULT_MODEL)}}} : TRUE

(***************************************************************************)
(* The session store file and the handlers' view of it.                    *)
(***************************************************************************)
EmptyStore == [k \in StoreKeys |-> NoEntry]

Max(a, b) == IF a >= b THEN a ELSE b

\* target.storeKeys.find((candidate) => store[candidate]), <<>> when none
RECURSIVE FindExistingKey(_, _)
FindExistingKey(st, candidates) ==
    IF candidates = <<>> THEN <<>>
    ELSE IF st[Head(candidates)].present THEN Head(candidates)
    ELSE FindExistingKey(st, Tail(candidates))

\* The loaded store after an entry filed under a legacy key has been moved
\* to the primary key (in memory; only a later save persists the move).
MigrateLegacyKey(st, target) ==
    LET primaryKey  == target.storeKeys[1]
        existingKey == FindExistingKey(st, target.storeKeys)
    IN  IF existingKey # <<>> /\ existingKey # primaryKey /\ ~st[primaryKey].present
        THEN [st EXCEPT ![primaryKey] = st[existingKey], ![existingKey] = NoEntry]
        ELSE st

\* loadSessionEntry(key).entry of the bridge
LoadSessionEntry(st, key) == st[key]

NoTurn == [active |-> FALSE, engine |-> FALSE, key |-> <<>>,
           sessionStore |-> EmptyStore, sessionEntry |-> NoEntry]

\* isEmbeddedPiRunActive(sessionId)
isEmbeddedPiRunActive(sessionId) ==
    \/ \E r \in runs : r.sessionId = sessionId
    \/ turn.active /\ turn.engine /\ turn.sessionEntry.sessionId = sessionId

Response(op, handler, key, req, ok, err, applied) ==
    [op |-> op, handler |-> handler, key |-> key, req |-> req,
     ok |-> ok, err |-> err, applied |-> applied]

NoResponse == Response("none", "none", <<>>, AbsentRequest, TRUE, "", 0)

(***************************************************************************)
(* sessions.patch                                                          *)
(***************************************************************************)
PatchStart(existing, id, now) ==
    [ok |-> TRUE, err |-> "", applied |-> 0,
     next |-> IF existing.present
              THEN [existing EXCEPT !.updatedAt = Max(existing.updatedAt, now)]
              ELSE NewEntry(id, now)]

\* The handler's progress after one more field check.  The progress is
\* held as a one-element set, which fixes its value before the next check
\* reads it.
Then(progress, Check(_)) == {Check(r) : r \in progress}

\* The field checks of the gateway handler, in the handler's order.
GatewayPatchFields(existing, primaryKey, p, c, id, now) ==
    LET s0 == {PatchStart(existing, id, now)}
        s1 == Then(s0, LAMBDA r : PatchSpawnedBy(r, existing, primaryKey, p))
        s2 == Then(s1, LAMBDA r : PatchLevel(r, p, "thinkingLevel",
                        normalizeThinkLevel(p["thinkingLevel"].v), TRUE,
                        "invalid thinkingLevel"))
        s3 == Then(s2, LAMBDA r : PatchLevel(r, p, "verboseLevel",
                        normalizeVerboseLevel(p["verboseLevel"].v), TRUE,
                        "invalid verboseLevel"))
        s4 == Then(s3, LAMBDA r : PatchLevel(r, p, "reasoningLevel",
                        normalizeReasoningLevel(p["reasoningLevel"].v), TRUE,
                        "invalid reasoningLevel"))
        s5 == Then(s4, LAMBDA r : PatchLevel(r, p, "responseUsage",
                        normalizeUsageDisplay(p["responseUsage"].v), TRUE,
                        "invalid responseUsage"))
        s6 == Then(s5, LAMBDA r : PatchModel(r, p, c))
        s7 == Then(s6, LAMBDA r : PatchLevel(r, p, "sendPolicy",
                        normalizeSendPolicy(p["sendPolicy"].v), FALSE,
                        "invalid sendPolicy"))
        s8 == Then(s7, LAMBDA r : PatchLevel(r, p, "groupActivation",
                        normalizeGroupActivation(p["groupActivation"].v), FALSE,
                        "invalid groupActivation"))
    IN  CHOOSE r \in s8 : TRUE

\* The field checks of the bridge handler, in the handler's order.
BridgePatchFields(existing, key, p, c, id, now) ==
    LET s0 == {PatchStart(existing, id, now)}
        s1 == Then(s0, LAMBDA r : PatchSpawnedBy(r, existing, key, p))
        s2 == Then(s1, LAMBDA r : PatchLevel(r, p, "thinkingLevel",
                        normalizeThinkLevel(p["thinkingLevel"].v), FALSE,
                        "invalid thinkingLevel"))
        s3 == Then(s2, LAMBDA r : PatchLevel(r, p, "verboseLevel",
                        normalizeVerboseLevel(p["verboseLevel"].v), FALSE,
                        "invalid verboseLevel"))
        s4 == Then(s3, LAMBDA r : PatchLevel(r, p, "reasoningLevel",
                        normalizeReasoningLevel(p["reasoningLevel"].v), TRUE,
                        "invalid reasoningLevel"))
        s5 == Then(s4, LAMBDA r : PatchLevel(r, p, "elevatedLevel",
                        normalizeElevatedLevel(p["elevatedLevel"].v), FALSE,
                        "invalid elevatedLevel"))
        s6 == Then(s5, LAMBDA r : PatchModel(r, p, c))
        s7 == Then(s6, LAMBDA r : PatchLevel(r, p, "sendPolicy",
                        normalizeSendPolicy(p["sendPolicy"].v), FALSE,
                        "invalid sendPolicy"))
        s8 == Then(s7, LAMBDA r : PatchLevel(r, p, "groupActivation",
                        normalizeGroupActivation(p["groupActivation"].v), FALSE,
                        "invalid groupActivation"))
    IN  CHOOSE r \in s8 : TRUE

\* store[primaryKey] = next; saveSessionStore(storePath, store) -- reached
\* only when no field check has responded with an error.
SaveAlways(persisted, loaded, storeKey, r) == [loaded EXCEPT ![storeKey] = r.next]

SavePatched(persisted, loaded, storeKey, r) ==
    IF r.ok THEN [loaded EXCEPT ![storeKey] = r.next] ELSE persisted

\* What a handled request leaves alone besides the store.
Handled(response) ==
    /\ clock' = clock + 1
    /\ resp' = response
    /\ UNCHANGED config
    /\ UNCHANGED <<coordVars, streamVars, cronVars, pureVars, chatVars>>

IdempotencyKeys == {"run-a", "run-b"}

\* An entry of ctx.chatAbortControllers; a run id without an entry maps to
\* NoController.
Controller(sessionId, sessionKey) ==
    [registered |-> TRUE, sessionId |-> sessionId, sessionKey |-> sessionKey]

NoController == [registered |-> FALSE, sessionId |-> 0, sessionKey |-> <<>>]

AbortParams(sessionKey, runId) == [sessionKey |-> sessionKey, runId |-> runId]

NoAbort == AbortParams(<<>>, "")

ChatIdle ==
    /\ chatAbortControllers = [runId \in IdempotencyKeys |-> NoController]
    /\ chatRunBuffers = {}
    /\ chatDeltaSentAt = {}
    /\ abortSignalled = {}
    /\ chatBroadcasts = <<>>
    /\ chatBridgeSends = <<>>
    /\ lastAbort = NoAbort

\* What a handled chat request leaves alone besides the store and the
\* registries of the chat runs.
HandledChat(response) ==
    /\ clock' = clock + 1
    /\ resp' = response
    /\ UNCHANGED config
    /\ UNCHANGED <<coordVars, streamVars, cronVars, pureVars>>

\* The registries of the chat runs other than the abort controllers.
ChatRegistriesKept ==
    UNCHANGED <<chatRunBuffers, chatDeltaSentAt, abortSignalled, chatBroadcasts,
                chatBridgeSends, lastAbort>>

SessionsPatch(key, p) ==
    /\ clock < MaxOps
    /\ IF key = KEmpty
       THEN /\ Handled(Response("sessions.patch", "gateway", key, p, FALSE, "key required", 0))
            /\ UNCHANGED <<store, nextId>>
       ELSE LET target     == ResolveTarget(key)
                loaded     == MigrateLegacyKey(store, target)
                primaryKey == target.storeKeys[1]
                existing   == loaded[primaryKey]
            IN  \E r \in {GatewayPatchFields(existing, primaryKey, p, config, nextId, clock)} :
                /\ nextId' = IF existing.present THEN nextId ELSE nextId + 1
                /\ store' = SavePatched(store, loaded, primaryKey, r)
                /\ Handled(Response("sessions.patch", "gateway", key, p, r.ok, r.err, r.applied))
    /\ UNCHANGED <<runs, dedupe, turn>>

BridgeSessionsPatch(key, p) ==
    /\ clock < MaxOps
    /\ IF key = KEmpty
       THEN /\ Handled(Response("sessions.patch", "bridge", key, p, FALSE, "key required", 0))
            /\ UNCHANGED <<store, nextId>>
       ELSE LET existing == store[key] IN
            \E r \in {BridgePatchFields(existing, key, p, config, nextId, clock)} :
                /\ nextId' = IF existing.present THEN nextId ELSE nextId + 1
                /\ store' = SavePatched(store, store, key, r)
                /\ Handled(Response("sessions.patch", "bridge", key, p, r.ok, r.err, r.applied))
    /\ UNCHANGED <<runs, dedupe, turn>>

(***************************************************************************)
(* sessions.reset                                                          *)
(***************************************************************************)
\* A reset that keeps the session id of the entry it found.
ResetEntrySameId(entry, id, now) ==
    [NoEntry EXCEPT !.present = TRUE,
                    !.sessionId = IF entry.present THEN entry.sessionId ELSE id,
                    !.updatedAt = now,
                    !.systemSent = "false", !.abortedLastRun = "false",
                    !.thinkingLevel = entry.thinkingLevel,
                    !.verboseLevel = entry.verboseLevel,
                    !.reasoningLevel = entry.reasoningLevel,
                    !.responseUsage = entry.responseUsage,
                    !.model = entry.model,
                    !.contextTokens = entry.contextTokens,
                    !.sendPolicy = entry.sendPolicy,
                    !.lastProvider = entry.lastProvider,
                    !.lastTo = entry.lastTo,
                    !.skillsSnapshot = entry.skillsSnapshot]

\* The entry the gateway handler builds from the entry it found.
ResetEntry(entry, id, now) ==
    [NoEntry EXCEPT !.present = TRUE, !.sessionId = id,
                    !.updatedAt = now,
                    !.systemSent = "false", !.abortedLastRun = "false",
                    !.thinkingLevel = entry.thinkingLevel,
                    !.verboseLevel = entry.verboseLevel,
                    !.reasoningLevel = entry.reasoningLevel,
                    !.responseUsage = entry.responseUsage,
                    !.model = entry.model,
                    !.contextTokens = entry.contextTokens,
                    !.sendPolicy = entry.sendPolicy,
                    !.lastProvider = entry.lastProvider,
                    !.lastTo = entry.lastTo,
                    !.skillsSnapshot = entry.skillsSnapshot]

\* The entry the bridge handler builds: no responseUsage.
BridgeResetEntry(entry, id, now) ==
    [ResetEntry(entry, id, now) EXCEPT !.responseUsage = None]

SessionsReset(key) ==
    /\ clock < MaxOps
    /\ IF key = KEmpty
       THEN /\ Handled(Response("sessions.reset", "gateway", key, AbsentRequest,
                                FALSE, "key required", 0))
            /\ UNCHANGED <<store, nextId>>
       ELSE LET target     == ResolveTarget(key)
                loaded     == MigrateLegacyKey(store, target)
                primaryKey == target.storeKeys[1]
                entry      == loaded[primaryKey]
            IN  /\ store' = [loaded EXCEPT ![primaryKey] = ResetEntry(entry, nextId, clock)]
                /\ nextId' = nextId + 1
                /\ Handled(Response("sessions.reset", "gateway", key, AbsentRequest,
                                    TRUE, "", 0))
    /\ UNCHANGED <<runs, dedupe, turn>>

BridgeSessionsReset(key) ==
    /\ clock < MaxOps
    /\ IF key = KEmpty
       THEN /\ Handled(Response("sessions.reset", "bridge", key, AbsentRequest,
                                FALSE, "key required", 0))
            /\ UNCHANGED <<store, nextId>>
       ELSE LET entry == LoadSessionEntry(store, key) IN
            /\ store' = [store EXCEPT ![key] = BridgeResetEntry(entry, nextId, clock)]
            /\ nextId' = nextId + 1
            /\ Handled(Response("sessions.reset", "bridge", key, AbsentRequest, TRUE, "", 0))
    /\ UNCHANGED <<runs, dedupe, turn>>

(***************************************************************************)
(* sessions.delete.  ended is what waitForEmbeddedPiRunEnd(sessionId,      *)
(* 15000) returns when the session has a run in flight.                    *)
(***************************************************************************)
\* The runs of a session end: agentCommand returns to chat.send, which
\* caches its response and drops the abort controller.
EndRunsOf(sessionId) ==
    /\ runs' = {r \in runs : r.sessionId # sessionId}
    /\ dedupe' = dedupe \cup {r.runId : r \in {x \in runs : x.sessionId = sessionId /\ x.chat}}
    /\ turn' = IF turn.active /\ turn.sessionEntry.sessionId = sessionId
               THEN [turn EXCEPT !.engine = FALSE] ELSE turn
    /\ chatAbortControllers' =
           [runId \in IdempotencyKeys |->
               IF \E r \in runs : r.sessionId = sessionId /\ r.chat /\ r.runId = runId
               THEN NoController ELSE chatAbortControllers[runId]]
    /\ ChatRegistriesKept

DeleteEntry(op, handler, key, loaded, storeKey, entry, ended) ==
    IF entry.present /\ isEmbeddedPiRunActive(entry.sessionId)
    THEN IF ~ended
         THEN /\ Handled(Response(op, handler, key, AbsentRequest, FALSE, "UNAVAILABLE", 0))
              /\ UNCHANGED <<store, runs, dedupe, turn>>
         ELSE /\ store' = [loaded EXCEPT ![storeKey] = NoEntry]
              /\ EndRunsOf(entry.sessionId)
              /\ HandledChat(Response(op, handler, key, AbsentRequest, TRUE, "", 0))
    ELSE /\ store' = [loaded EXCEPT ![storeKey] = NoEntry]
         /\ Handled(Response(op, handler, key, AbsentRequest, TRUE, "", 0))
         /\ UNCHANGED <<runs, dedupe, turn>>

SessionsDelete(key, ended) ==
    /\ clock < MaxOps
    /\ IF key = KEmpty
       THEN /\ Handled(Response("sessions.delete", "gateway", key, AbsentRequest,
                                FALSE, "key required", 0))
            /\ UNCHANGED <<store, runs, dedupe, turn>>
       ELSE IF ResolveTarget(key).canonicalKey = MainSessionKey
       THEN /\ Handled(Response("sessions.delete", "gateway", key, AbsentRequest,
                                FALSE, "Cannot delete the main session", 0))
            /\ UNCHANGED <<store, runs, dedupe, turn>>
       ELSE LET target     == ResolveTarget(key)
                loaded     == MigrateLegacyKey(store, target)
                primaryKey == target.storeKeys[1]
            IN  DeleteEntry("sessions.delete", "gateway", key, loaded, primaryKey,
                            loaded[primaryKey], ended)
    /\ UNCHANGED nextId

BridgeSessionsDelete(key, ended) ==
    /\ clock < MaxOps
    /\ IF key = KEmpty
       THEN /\ Handled(Response("sessions.delete", "bridge", key, AbsentRequest,
                                FALSE, "key required", 0))
            /\ UNCHANGED <<store, runs, dedupe, turn>>
       ELSE IF key = MainSessionKey
       THEN /\ Handled(Response("sessions.delete", "bridge", key, AbsentRequest,
                                FALSE, "Cannot delete the main session", 0))
            /\ UNCHANGED <<store, runs, dedupe, turn>>
       ELSE DeleteEntry("sessions.delete", "bridge", key, store, key,
                        LoadSessionEntry(store, key), ended)
    /\ UNCHANGED nextId

(***************************************************************************)
(* sessions.compact.  transcript is what the handler finds on disk:        *)
(* "missing", "short" (at most maxLines lines) or "long".                  *)
(***************************************************************************)
CompactEntry(entry, now) ==
    [entry EXCEPT !.inputTokens = NoNum, !.outputTokens = NoNum, !.totalTokens = NoNum,
                  !.updatedAt = now]

SessionsCompact(key, transcript) ==
    /\ clock < MaxOps
    /\ IF key = KEmpty
       THEN /\ Handled(Response("sessions.compact", "gateway", key, AbsentRequest,
                                FALSE, "key required", 0))
            /\ UNCHANGED store
       ELSE LET target     == ResolveTarget(key)
                loaded     == MigrateLegacyKey(store, target)
                primaryKey == target.storeKeys[1]
                entry      == loaded[primaryKey]
            IN  /\ store' = IF entry.present /\ transcript = "long"
                            THEN [loaded EXCEPT ![primaryKey] = CompactEntry(entry, clock)]
                            ELSE store
                /\ Handled(Response("sessions.compact", "gateway", key, AbsentRequest,
                                    TRUE, "", 0))
    /\ UNCHANGED <<nextId, runs, dedupe, turn>>

BridgeSessionsCompact(key, transcript) ==
    /\ clock < MaxOps
    /\ IF key = KEmpty
       THEN /\ Handled(Response("sessions.compact", "bridge", key, AbsentRequest,
                                FALSE, "key required", 0))
            /\ UNCHANGED store
       ELSE LET entry == LoadSessionEntry(store, key) IN
            /\ store' = IF entry.present /\ transcript = "long"
                        THEN [store EXCEPT ![key] = CompactEntry(store[key], clock)]
                        ELSE store
            /\ Handled(Response("sessions.compact", "bridge", key, AbsentRequest, TRUE, "", 0))
    /\ UNCHANGED <<nextId, runs, dedupe, turn>>

(***************************************************************************)
(* The bridge's chat.send, voice.transcript and agent.request: each files  *)
(* a rebuilt entry under the raw session key and starts agentCommand.      *)
(* chat.send registers an abort controller under its run id, which is the  *)
(* idempotency key of the request, for as long as agentCommand runs.       *)
(***************************************************************************)
\* chat.send's sessionEntry
ChatSendEntry(entry, id, now) ==
    [NoEntry EXCEPT !.present = TRUE,
                    !.sessionId = IF entry.present THEN entry.sessionId ELSE id,
                    !.updatedAt = now,
                    !.thinkingLevel = entry.thinkingLevel,
                    !.verboseLevel = entry.verboseLevel,
                    !.reasoningLevel = entry.reasoningLevel,
                    !.systemSent = entry.systemSent,
                    !.lastProvider = entry.lastProvider,
                    !.lastTo = entry.lastTo]

\* the entry of voice.transcript and agent.request: sendPolicy is kept too
NodeEventEntry(entry, id, now) ==
    [ChatSendEntry(entry, id, now) EXCEPT !.sendPolicy = entry.sendPolicy]

Run(runId, sessionId, key, chat) ==
    [runId |-> runId, sessionId |-> sessionId, sessionKey |-> key, chat |-> chat]

\* chat.send with at most maxRuns agentCommand runs in flight after it.
ChatSendWithin(maxRuns, key, clientRunId) ==
    /\ clock < MaxOps
    /\ key # KEmpty
    /\ IF clientRunId \in dedupe
       THEN /\ Handled(Response("chat.send", "bridge", key, AbsentRequest, TRUE, "cached", 0))
            /\ UNCHANGED <<store, nextId, runs>>
       ELSE LET entry        == LoadSessionEntry(store, key)
                sessionEntry == ChatSendEntry(entry, nextId, clock)
            IN  /\ Cardinality(runs) < maxRuns
                /\ chatAbortControllers' =
                       [chatAbortControllers EXCEPT
                           ![clientRunId] = Controller(sessionEntry.sessionId, key)]
                /\ store' = [store EXCEPT ![key] = sessionEntry]
                /\ nextId' = IF entry.present THEN nextId ELSE nextId + 1
                /\ runs' = runs \cup {Run(clientRunId, sessionEntry.sessionId, key, TRUE)}
                /\ HandledChat(Response("chat.send", "bridge", key, AbsentRequest,
                                        TRUE, "", 0))
                /\ ChatRegistriesKept
    /\ UNCHANGED <<dedupe, turn>>

BridgeChatSend(key, clientRunId) == ChatSendWithin(MaxRuns, key, clientRunId)

\* sessionKeyRaw = KEmpty stands for a payload without a session key.
BridgeVoiceTranscript(sessionKeyRaw) ==
    /\ clock < MaxOps
    /\ Cardinality(runs) < MaxRuns
    /\ LET mainKey    == KLegacyMain
           sessionKey == IF sessionKeyRaw # KEmpty THEN sessionKeyRaw ELSE mainKey
           entry      == LoadSessionEntry(store, sessionKey)
           next       == NodeEventEntry(entry, nextId, clock)
       IN  /\ store' = [store EXCEPT ![sessionKey] = next]
           /\ nextId' = IF entry.present THEN nextId ELSE nextId + 1
           /\ runs' = runs \cup {Run("voice", next.sessionId, sessionKey, FALSE)}
           /\ Handled(Response("voice.transcript", "bridge", sessionKey, AbsentRequest,
                               TRUE, "", 0))
    /\ UNCHANGED <<dedupe, turn>>

BridgeAgentRequest(sessionKey) ==
    /\ clock < MaxOps
    /\ Cardinality(runs) < MaxRuns
    /\ sessionKey # KEmpty
    /\ LET entry == LoadSessionEntry(store, sessionKey)
           next  == NodeEventEntry(entry, nextId, clock)
       IN  /\ store' = [store EXCEPT ![sessionKey] = next]
           /\ nextId' = IF entry.present THEN nextId ELSE nextId + 1
           /\ runs' = runs \cup {Run("node", next.sessionId, sessionKey, FALSE)}
           /\ Handled(Response("agent.request", "bridge", sessionKey, AbsentRequest,
                               TRUE, "", 0))
    /\ UNCHANGED <<dedupe, turn>>

\* agentCommand returns: chat.send caches its response under the
\* idempotency key and drops the abort controller.
AgentCommandEnd(r) ==
    /\ r \in runs
    /\ runs' = runs \ {r}
    /\ dedupe' = IF r.chat THEN dedupe \cup {r.runId} ELSE dedupe
    /\ chatAbortControllers' =
           IF r.chat THEN [chatAbortControllers EXCEPT ![r.runId] = NoController]
                     ELSE chatAbortControllers
    /\ resp' = Response("agentCommand.end", "bridge", r.sessionKey, AbsentRequest, TRUE, "", 0)
    /\ UNCHANGED <<store, config, nextId, clock, turn>>
    /\ ChatRegistriesKept
    /\ UNCHANGED <<coordVars, streamVars, cronVars, pureVars>>

\* The payload of the chat event that tells a run was aborted.
AbortedEvent(runId, sessionKey) ==
    [runId |-> runId, sessionKey |-> sessionKey, state |-> "aborted"]

AbortRegisteredKeepsBuffer(runId) ==
    /\ abortSignalled' = abortSignalled \cup {chatAbortControllers[runId]}
    /\ chatAbortControllers' = [chatAbortControllers EXCEPT ![runId] = NoController]
    /\ chatDeltaSentAt' = chatDeltaSentAt \ {runId}
    /\ UNCHANGED chatRunBuffers

\* What chat.abort does to the registries of a run it aborts.
AbortRegistered(runId) ==
    /\ abortSignalled' = abortSignalled \cup {chatAbortControllers[runId]}
    /\ chatAbortControllers' = [chatAbortControllers EXCEPT ![runId] = NoController]
    /\ chatRunBuffers' = chatRunBuffers \ {runId}
    /\ chatDeltaSentAt' = chatDeltaSentAt \ {runId}

\* chat.abort of the bridge, its parameters valid.
BridgeChatAbort(sessionKey, runId) ==
    /\ clock < MaxOps
    /\ sessionKey # KEmpty
    /\ lastAbort' = AbortParams(sessionKey, runId)
    /\ LET controller == chatAbortControllers[runId]
       IN  IF ~controller.registered
           THEN /\ HandledChat(Response("chat.abort", "bridge", sessionKey, AbsentRequest,
                                        TRUE, "aborted=false", 0))
                /\ UNCHANGED <<chatAbortControllers, chatRunBuffers, chatDeltaSentAt,
                               abortSignalled, chatBroadcasts, chatBridgeSends>>
           ELSE IF controller.sessionKey # sessionKey
           THEN /\ HandledChat(Response("chat.abort", "bridge", sessionKey, AbsentRequest,
                                        FALSE, "runId does not match sessionKey", 0))
                /\ UNCHANGED <<chatAbortControllers, chatRunBuffers, chatDeltaSentAt,
                               abortSignalled, chatBroadcasts, chatBridgeSends>>
           ELSE /\ AbortRegistered(runId)
                /\ chatBroadcasts' = Append(chatBroadcasts, AbortedEvent(runId, sessionKey))
                /\ chatBridgeSends' =
                       Append(chatBridgeSends, AbortedEvent(runId, sessionKey))
                /\ HandledChat(Response("chat.abort", "bridge", sessionKey, AbsentRequest,
                                        TRUE, "aborted=true", 0))
    /\ UNCHANGED <<store, nextId, runs, dedupe, turn>>

(***************************************************************************)
(* A reply turn of runReplyAgent on a session: it holds the store and the  *)
(* entry loaded when the turn began, and at completion files the usage of  *)
(* the run into that entry and saves that store.                           *)
(***************************************************************************)
TurnStart(key) ==
    /\ ~turn.active
    /\ clock < MaxOps
    /\ store[key].present
    /\ turn' = [active |-> TRUE, engine |-> TRUE, key |-> key,
                sessionStore |-> store, sessionEntry |-> store[key]]
    /\ Handled(Response("turn.start", "reply", key, AbsentRequest, TRUE, "", 0))
    /\ UNCHANGED <<store, nextId, runs, dedupe>>

\* runEmbeddedPiAgent returns
TurnEngineEnd ==
    /\ turn.active /\ turn.engine
    /\ turn' = [turn EXCEPT !.engine = FALSE]
    /\ resp' = Response("turn.engineEnd", "reply", turn.key, AbsentRequest, TRUE, "", 0)
    /\ UNCHANGED <<store, config, nextId, clock, runs, dedupe>>
    /\ UNCHANGED <<coordVars, streamVars, cronVars, pureVars, chatVars>>

UsageEntry(entry, hasUsage, now) ==
    IF hasUsage
    THEN [entry EXCEPT !.inputTokens = 5, !.outputTokens = 4, !.totalTokens = 5,
                       !.model = "gpt-4", !.contextTokens = 8, !.updatedAt = now]
    ELSE [entry EXCEPT !.model = "gpt-4", !.contextTokens = 8]

\* hasNonzeroUsage(usage) is hasUsage
TurnComplete(hasUsage) ==
    /\ turn.active /\ ~turn.engine
    /\ store' = [turn.sessionStore EXCEPT
                    ![turn.key] = UsageEntry(turn.sessionEntry, hasUsage, clock)]
    /\ turn' = NoTurn
    /\ resp' = Response("turn.complete", "reply", turn.key, AbsentRequest, TRUE, "", 0)
    /\ UNCHANGED <<config, nextId, clock, runs, dedupe>>
    /\ UNCHANGED <<coordVars, streamVars, cronVars, pureVars, chatVars>>

(***************************************************************************)
(* The reply-turn coordinator: what runReplyAgent does with an inbound     *)
(* turn of a session whose queue key may have a run in flight.  The flags  *)
(* shouldSteer and shouldFollowup and the queue mode are parameters of the *)
(* call; isActive and isStreaming tell what the session's run is doing.    *)
(***************************************************************************)
MaxTurns == 4           \* inbound turns in one behaviour of the coordinator

QueueModes == {"off", "queue", "steer"}

\* An engine invocation for a turn; followup tells the drain started it.
EngineRun(t, streaming, followup) ==
    [turn |-> t, streaming |-> streaming, followup |-> followup]

RunIsActive == active # {}

RunIsStreaming == \E r \in active : r.streaming

\* queueEmbeddedPiMessage(sessionId, prompt): the streaming run takes the
\* prompt or declines it.
queueEmbeddedPiMessage(isStreaming, accepts) == isStreaming /\ accepts

SteerNeverReturns(steered, shouldFollowup) == FALSE

\* if (steered && !shouldFollowup) { ...; return undefined; }
SteerReturns(steered, shouldFollowup) == steered /\ ~shouldFollowup

\* if (isActive && (shouldFollowup || resolvedQueue.mode === "steer"))
ShouldEnqueue(isActive, shouldFollowup, mode) ==
    isActive /\ (shouldFollowup \/ mode = "steer")

\* enqueueFollowupRun(queueKey, followupRun, resolvedQueue)
enqueueFollowupRun(q, t) == Append(q, t)

\* scheduleFollowupDrain(queueKey, runFollowupTurn): starts the drain of a
\* queue that has turns waiting, unless it is running already.
scheduleFollowupDrain(isDraining, q) == isDraining \/ q # <<>>

Call(t, shouldSteer, shouldFollowup, mode, isActive, isStreaming, steered, did) ==
    [turn |-> t, shouldSteer |-> shouldSteer, shouldFollowup |-> shouldFollowup,
     mode |-> mode, isActive |-> isActive, isStreaming |-> isStreaming,
     steered |-> steered, did |-> did]

NoCall == Call(0, FALSE, FALSE, "off", FALSE, FALSE, FALSE, "none")

CoordIdle ==
    /\ arrived = 0
    /\ active = {}
    /\ injected = <<>>
    /\ queue = <<>>
    /\ draining = FALSE
    /\ started = <<>>
    /\ lastCall = NoCall

\* runReplyAgent up to the point where it returns or invokes the engine.
RunReplyAgent(shouldSteer, shouldFollowup, mode, accepts) ==
    /\ arrived < MaxTurns
    /\ \E t \in {arrived + 1}, isActive \in {RunIsActive}, isStreaming \in {RunIsStreaming} :
       \E steered \in {shouldSteer /\ queueEmbeddedPiMessage(isStreaming, accepts)} :
          /\ arrived' = t
          /\ injected' = IF steered THEN Append(injected, t) ELSE injected
          /\ IF SteerReturns(steered, shouldFollowup)
             THEN /\ lastCall' = Call(t, shouldSteer, shouldFollowup, mode,
                                      isActive, isStreaming, steered, "returned")
                  /\ UNCHANGED <<queue, active, started>>
             ELSE IF ShouldEnqueue(isActive, shouldFollowup, mode)
             THEN /\ queue' = enqueueFollowupRun(queue, t)
                  /\ lastCall' = Call(t, shouldSteer, shouldFollowup, mode,
                                      isActive, isStreaming, steered, "enqueued")
                  /\ UNCHANGED <<active, started>>
             ELSE /\ active' = active \cup {EngineRun(t, FALSE, FALSE)}
                  /\ started' = Append(started, t)
                  /\ lastCall' = Call(t, shouldSteer, shouldFollowup, mode,
                                      isActive, isStreaming, steered, "invoked")
                  /\ UNCHANGED queue
    /\ UNCHANGED draining
    /\ UNCHANGED <<storeVars, streamVars, cronVars, pureVars, chatVars>>

\* The run of the engine starts streaming its reply.
EngineStreams(r) ==
    /\ r \in active
    /\ ~r.streaming
    /\ active' = (active \ {r}) \cup {EngineRun(r.turn, TRUE, r.followup)}
    /\ UNCHANGED <<arrived, injected, queue, draining, started, lastCall>>
    /\ UNCHANGED <<storeVars, streamVars, cronVars, pureVars, chatVars>>

\* The engine returns or throws and runReplyAgent leaves through
\* finalizeWithFollowup; when saving the session store throws instead, the
\* exception leaves runReplyAgent and no drain is scheduled.
RunEnds(r, saveThrows) ==
    /\ r \in active
    /\ ~r.followup
    /\ active' = active \ {r}
    /\ draining' = IF saveThrows THEN draining ELSE scheduleFollowupDrain(draining, queue)
    /\ UNCHANGED <<arrived, injected, queue, started, lastCall>>
    /\ UNCHANGED <<storeVars, streamVars, cronVars, pureVars, chatVars>>

\* The drain takes the turn at the head of the queue and has the follow-up
\* runner invoke the engine for it.
DrainNext ==
    /\ draining
    /\ queue # <<>>
    /\ ~\E r \in active : r.followup
    /\ active' = active \cup {EngineRun(Head(queue), FALSE, TRUE)}
    /\ started' = Append(started, Head(queue))
    /\ queue' = Tail(queue)
    /\ UNCHANGED <<arrived, injected, draining, lastCall>>
    /\ UNCHANGED <<storeVars, streamVars, cronVars, pureVars, chatVars>>

\* The run of the follow-up runner ends; the drain goes on.
FollowupRunEnds(r) ==
    /\ r \in active
    /\ r.followup
    /\ active' = active \ {r}
    /\ UNCHANGED <<arrived, injected, queue, draining, started, lastCall>>
    /\ UNCHANGED <<storeVars, streamVars, cronVars, pureVars, chatVars>>

\* The drain finds the queue empty and stops.
DrainDone ==
    /\ draining
    /\ queue = <<>>
    /\ ~\E r \in active : r.followup
    /\ draining' = FALSE
    /\ UNCHANGED <<arrived, active, injected, queue, started, lastCall>>
    /\ UNCHANGED <<storeVars, streamVars, cronVars, pureVars, chatVars>>

(***************************************************************************)
(* Block streaming of one run of runReplyAgent: the engine hands blocks to *)
(* onBlockReply while it runs; the blocks go to the channel one after the  *)
(* other through blockReplyChain; when the engine has returned and the     *)
(* chain has settled, the final payloads are filtered and returned for     *)
(* delivery.                                                               *)
(***************************************************************************)
MaxBlocks == 3          \* onBlockReply calls in one run
MaxFinal == 2           \* final payloads one run returns

ReplyPayload(text, mediaUrls, mediaUrl, replyToId) ==
    [text |-> text, mediaUrls |-> mediaUrls, mediaUrl |-> mediaUrl, replyToId |-> replyToId]

\* The blocks an engine streams: texts that differ in surrounding blanks
\* only, a text with media, a reply to a message, a block of blanks.
BlockPayloads ==
    {ReplyPayload(<<"a">>, <<>>, None, None),
     ReplyPayload(<<" ", "a">>, <<>>, None, None),
     ReplyPayload(<<"b">>, <<>>, None, None),
     ReplyPayload(<<"a">>, <<"u">>, "u", None),
     ReplyPayload(<<"a">>, <<>>, None, "m"),
     ReplyPayload(<<" ">>, <<>>, None, None)}

\* The final payloads a run returns: the same, with media as a single URL.
FinalPayloads ==
    {ReplyPayload(<<"a">>, <<>>, None, None),
     ReplyPayload(<<" ", "a">>, <<>>, None, None),
     ReplyPayload(<<"b">>, <<>>, None, None),
     ReplyPayload(<<"a">>, <<>>, "u", None),
     ReplyPayload(<<"a">>, <<>>, None, "m")}

FinalLists == UNION {[1..n -> FinalPayloads] : n \in 0..MaxFinal}

buildPayloadKeyUntrimmed(payload) ==
    [text |-> JoinTokens(payload.text),
     mediaList |-> IF Len(payload.mediaUrls) > 0 THEN payload.mediaUrls
                   ELSE IF payload.mediaUrl # None THEN <<payload.mediaUrl>>
                   ELSE <<>>,
     replyToId |-> payload.replyToId]

buildPayloadKey(payload) ==
    [text |-> JoinTokens(Trim(payload.text)),
     mediaList |-> IF Len(payload.mediaUrls) > 0 THEN payload.mediaUrls
                   ELSE IF payload.mediaUrl # None THEN <<payload.mediaUrl>>
                   ELSE <<>>,
     replyToId |-> payload.replyToId]

\* if (!cleaned && !hasMedia) return;  -- cleaned is the text left after
\* the audio tag is taken out, which is trimmed
HasContent(payload) ==
    Trim(payload.text) # <<>> \/ payload.mediaUrl # None \/ Len(payload.mediaUrls) > 0

BlockTask(payload, payloadKey) == [payload |-> payload, payloadKey |-> payloadKey]

Delivery(via, payload, ack) == [via |-> via, payload |-> payload, ack |-> ack]

RunResult(stage, payloads) == [stage |-> stage, payloads |-> payloads]

StreamIdle ==
    /\ blockStreamingEnabled = FALSE
    /\ streamedPayloadKeys = {}
    /\ pendingStreamedPayloadKeys = {}
    /\ blockReplyChain = <<>>
    /\ sending = FALSE
    /\ blockReplyAborted = FALSE
    /\ didStreamBlockReply = FALSE
    /\ blocks = 0
    /\ runResult = RunResult("running", <<>>)
    /\ channel = <<>>

OnBlockReplyJumpsQueue(payload) ==
    /\ runResult.stage = "running"
    /\ blockStreamingEnabled
    /\ blocks < MaxBlocks
    /\ blocks' = blocks + 1
    /\ \E payloadKey \in {buildPayloadKey(payload)} :
          IF \/ ~HasContent(payload)
             \/ payloadKey \in streamedPayloadKeys
             \/ payloadKey \in pendingStreamedPayloadKeys
             \/ blockReplyAborted
          THEN UNCHANGED <<pendingStreamedPayloadKeys, blockReplyChain>>
          ELSE /\ pendingStreamedPayloadKeys' = pendingStreamedPayloadKeys \cup {payloadKey}
               /\ blockReplyChain' = <<BlockTask(payload, payloadKey)>> \o blockReplyChain
    /\ UNCHANGED <<blockStreamingEnabled, streamedPayloadKeys, sending, blockReplyAborted,
                   didStreamBlockReply, runResult, channel>>
    /\ UNCHANGED <<storeVars, coordVars, cronVars, pureVars, chatVars>>

\* onBlockReply(payload): the engine hands over a block.
OnBlockReply(payload) ==
    /\ runResult.stage = "running"
    /\ blockStreamingEnabled
    /\ blocks < MaxBlocks
    /\ blocks' = blocks + 1
    /\ \E payloadKey \in {buildPayloadKey(payload)} :
          IF \/ ~HasContent(payload)
             \/ payloadKey \in streamedPayloadKeys
             \/ payloadKey \in pendingStreamedPayloadKeys
             \/ blockReplyAborted
          THEN UNCHANGED <<pendingStreamedPayloadKeys, blockReplyChain>>
          ELSE /\ pendingStreamedPayloadKeys' = pendingStreamedPayloadKeys \cup {payloadKey}
               /\ blockReplyChain' = Append(blockReplyChain, BlockTask(payload, payloadKey))
    /\ UNCHANGED <<blockStreamingEnabled, streamedPayloadKeys, sending, blockReplyAborted,
                   didStreamBlockReply, runResult, channel>>
    /\ UNCHANGED <<storeVars, coordVars, cronVars, pureVars, chatVars>>

\* The chain reaches the next block: after an abort the block is dropped
\* (didSend false), otherwise opts.onBlockReply is called with it.
BlockSendStarts ==
    /\ blockReplyChain # <<>>
    /\ ~sending
    /\ IF blockReplyAborted
       THEN /\ pendingStreamedPayloadKeys' =
                    pendingStreamedPayloadKeys \ {Head(blockReplyChain).payloadKey}
            /\ blockReplyChain' = Tail(blockReplyChain)
            /\ UNCHANGED sending
       ELSE /\ sending' = TRUE
            /\ UNCHANGED <<pendingStreamedPayloadKeys, blockReplyChain>>
    /\ UNCHANGED <<blockStreamingEnabled, streamedPayloadKeys, blockReplyAborted,
                   didStreamBlockReply, blocks, runResult, channel>>
    /\ UNCHANGED <<storeVars, coordVars, cronVars, pureVars, chatVars>>

\* The channel's delivery of the block resolves within the timeout.
BlockSent ==
    /\ sending
    /\ channel' = Append(channel, Delivery("block", Head(blockReplyChain).payload, "sent"))
    /\ streamedPayloadKeys' = streamedPayloadKeys \cup {Head(blockReplyChain).payloadKey}
    /\ didStreamBlockReply' = TRUE
    /\ pendingStreamedPayloadKeys' =
            pendingStreamedPayloadKeys \ {Head(blockReplyChain).payloadKey}
    /\ blockReplyChain' = Tail(blockReplyChain)
    /\ sending' = FALSE
    /\ UNCHANGED <<blockStreamingEnabled, blockReplyAborted, blocks, runResult>>
    /\ UNCHANGED <<storeVars, coordVars, cronVars, pureVars, chatVars>>

\* The channel's delivery of the block rejects.
BlockSendFails ==
    /\ sending
    /\ pendingStreamedPayloadKeys' =
            pendingStreamedPayloadKeys \ {Head(blockReplyChain).payloadKey}
    /\ blockReplyChain' = Tail(blockReplyChain)
    /\ sending' = FALSE
    /\ UNCHANGED <<blockStreamingEnabled, streamedPayloadKeys, blockReplyAborted,
                   didStreamBlockReply, blocks, runResult, channel>>
    /\ UNCHANGED <<storeVars, coordVars, cronVars, pureVars, chatVars>>

\* withTimeout gives up on the delivery: the race is lost to the timer, the
\* delivery is told to abort and is left to itself, so the block reaches the
\* channel (reached) or does not.
BlockSendTimesOut(reached) ==
    /\ sending
    /\ blockReplyAborted' = TRUE
    /\ channel' = IF reached
                  THEN Append(channel, Delivery("block", Head(blockReplyChain).payload, "timeout"))
                  ELSE channel
    /\ pendingStreamedPayloadKeys' =
            pendingStreamedPayloadKeys \ {Head(blockReplyChain).payloadKey}
    /\ blockReplyChain' = Tail(blockReplyChain)
    /\ sending' = FALSE
    /\ UNCHANGED <<blockStreamingEnabled, streamedPayloadKeys, didStreamBlockReply,
                   blocks, runResult>>
    /\ UNCHANGED <<storeVars, coordVars, cronVars, pureVars, chatVars>>

\* The engine returns its payloads; runReplyAgent waits for the chain.
EngineReturns(payloads) ==
    /\ runResult.stage = "running"
    /\ runResult' = RunResult("settling", payloads)
    /\ UNCHANGED <<blockStreamingEnabled, streamedPayloadKeys, pendingStreamedPayloadKeys,
                   blockReplyChain, sending, blockReplyAborted, didStreamBlockReply,
                   blocks, channel>>
    /\ UNCHANGED <<storeVars, coordVars, cronVars, pureVars, chatVars>>

FilterFinalPayloadsDropsStreamed(payloads, enabled, didStream, aborted, streamedKeys) ==
    IF enabled /\ didStream
    THEN <<>>
    ELSE IF enabled
    THEN SelectSeq(payloads, LAMBDA p : buildPayloadKey(p) \notin streamedKeys)
    ELSE payloads

\* filteredPayloads
FilterFinalPayloads(payloads, enabled, didStream, aborted, streamedKeys) ==
    IF enabled /\ didStream /\ ~aborted
    THEN <<>>
    ELSE IF enabled
    THEN SelectSeq(payloads, LAMBDA p : buildPayloadKey(p) \notin streamedKeys)
    ELSE payloads

RECURSIVE DeliverFinal(_, _)
DeliverFinal(log, payloads) ==
    IF payloads = <<>> THEN log
    ELSE DeliverFinal(Append(log, Delivery("final", Head(payloads), "sent")), Tail(payloads))

\* The chain has settled: the final payloads are filtered and returned, and
\* the caller delivers what is returned.
ReturnFinalPayloads(suppressMessagingToolReplies) ==
    /\ runResult.stage = "settling"
    /\ blockReplyChain = <<>>
    /\ runResult' = RunResult("done", runResult.payloads)
    /\ \E replyPayloads \in
            {IF suppressMessagingToolReplies THEN <<>>
             ELSE FilterFinalPayloads(runResult.payloads, blockStreamingEnabled,
                                      didStreamBlockReply, blockReplyAborted,
                                      streamedPayloadKeys)} :
          channel' = DeliverFinal(channel, replyPayloads)
    /\ UNCHANGED <<blockStreamingEnabled, streamedPayloadKeys, pendingStreamedPayloadKeys,
                   blockReplyChain, sending, blockReplyAborted, didStreamBlockReply, blocks>>
    /\ UNCHANGED <<storeVars, coordVars, cronVars, pureVars, chatVars>>

(***************************************************************************)
(* The cron timer: onTimer with its three phases (mark the due jobs under  *)
(* the lock, execute them outside it, apply the results under the lock),   *)
(* the recovery of missed jobs at start, and executeJob run directly.      *)
(***************************************************************************)
MaxNow == 3             \* the clock of the cron service stops here
MaxDirectRuns == 2      \* executeJob calls made directly in one behaviour

JobOrder == <<"j1", "j2">>

JobIds == Range(JobOrder)

RunStatuses == {"ok", "error", "skipped"}

Schedule(kind, atMs, everyMs, anchorMs) ==
    [kind |-> kind, atMs |-> atMs, everyMs |-> everyMs, anchorMs |-> anchorMs]

JobState(runningAtMs, nextRunAtMs) ==
    [runningAtMs |-> runningAtMs, lastRunAtMs |-> NoNum, lastStatus |-> None,
     lastError |-> None, nextRunAtMs |-> nextRunAtMs]

CronJob(schedule, deleteAfterRun, state) ==
    [present |-> TRUE, enabled |-> TRUE, schedule |-> schedule,
     deleteAfterRun |-> deleteAfterRun, state |-> state]

\* A job taken out of store.jobs.
Removed(job) == [job EXCEPT !.present = FALSE]

\* computeNextRunAtMs that rounds the elapsed intervals down.
computeNextRunAtMsRoundsDown(schedule, now) ==
    IF schedule.kind = "at"
    THEN IF schedule.atMs > now THEN schedule.atMs ELSE NoNum
    ELSE LET everyMs == Max(1, schedule.everyMs)
             anchor  == Max(0, IF schedule.anchorMs = NoNum THEN now ELSE schedule.anchorMs)
         IN  IF now < anchor THEN anchor
             ELSE anchor + Max(1, (now - anchor) \div everyMs) * everyMs

computeNextRunAtMs(schedule, now) ==
    IF schedule.kind = "at"
    THEN IF schedule.atMs > now THEN schedule.atMs ELSE NoNum
    ELSE LET everyMs == Max(1, schedule.everyMs)
             anchor  == Max(0, IF schedule.anchorMs = NoNum THEN now ELSE schedule.anchorMs)
         IN  IF now < anchor THEN anchor
             ELSE anchor + Max(1, ((now - anchor) + everyMs - 1) \div everyMs) * everyMs

\* computeJobNextRunAtMs(job, nowMs) of jobs.js
computeJobNextRunAtMs(job, now) ==
    IF job.enabled THEN computeNextRunAtMs(job.schedule, now) ELSE NoNum

\* recomputeNextRuns(state) of jobs.js: an enabled job that has no next run
\* gets one, a disabled job has none.
recomputeNextRuns(jobs, now) ==
    [j \in JobIds |->
        IF ~jobs[j].present THEN jobs[j]
        ELSE IF ~jobs[j].enabled THEN [jobs[j] EXCEPT !.state.nextRunAtMs = NoNum]
        ELSE IF jobs[j].state.nextRunAtMs = NoNum
        THEN [jobs[j] EXCEPT !.state.nextRunAtMs = computeJobNextRunAtMs(jobs[j], now)]
        ELSE jobs[j]]

\* The filter of findDueJobs and of runDueJobs.
IsDue(job, now) ==
    /\ job.present
    /\ job.enabled
    /\ job.state.runningAtMs = NoNum
    /\ job.state.nextRunAtMs # NoNum /\ now >= job.state.nextRunAtMs

findDueJobs(jobs, now) == SelectSeq(JobOrder, LAMBDA j : IsDue(jobs[j], now))

IsMissedIgnoresLastStatus(job, now) ==
    /\ job.present
    /\ job.enabled
    /\ job.state.runningAtMs = NoNum
    /\ job.state.nextRunAtMs # NoNum /\ now >= job.state.nextRunAtMs

\* The filter of runMissedJobs.
IsMissed(job, now) ==
    /\ job.present
    /\ job.enabled
    /\ job.state.runningAtMs = NoNum
    /\ ~(job.schedule.kind = "at" /\ job.state.lastStatus = "ok")
    /\ job.state.nextRunAtMs # NoNum /\ now >= job.state.nextRunAtMs

MissedJobs(jobs, now) == SelectSeq(JobOrder, LAMBDA j : IsMissed(jobs[j], now))

RECURSIVE MarkRunning(_, _, _)
MarkRunning(jobs, due, now) ==
    IF due = <<>> THEN jobs
    ELSE MarkRunning([jobs EXCEPT ![Head(due)].state.runningAtMs = now,
                                  ![Head(due)].state.lastError = None],
                     Tail(due), now)

JobResult(jobId, status, startedAt, endedAt) ==
    [jobId |-> jobId, status |-> status, startedAt |-> startedAt, endedAt |-> endedAt]

ErrorOf(status) == IF status = "ok" THEN None ELSE "error"

ApplyResultKeepsOneShot(job, result) ==
    LET done == [job EXCEPT !.state.runningAtMs = NoNum,
                            !.state.lastRunAtMs = result.startedAt,
                            !.state.lastStatus = result.status,
                            !.state.lastError = ErrorOf(result.status)]
        atOk == job.schedule.kind = "at" /\ result.status = "ok"
    IN  IF atOk /\ job.deleteAfterRun THEN Removed(done)
        ELSE IF job.enabled
        THEN [done EXCEPT !.state.nextRunAtMs = computeJobNextRunAtMs(job, result.endedAt)]
        ELSE [done EXCEPT !.state.nextRunAtMs = NoNum]

\* onTimer, lines 105-151: one result applied to the reloaded job.
ApplyResult(job, result) ==
    LET done == [job EXCEPT !.state.runningAtMs = NoNum,
                            !.state.lastRunAtMs = result.startedAt,
                            !.state.lastStatus = result.status,
                            !.state.lastError = ErrorOf(result.status)]
        atOk == job.schedule.kind = "at" /\ result.status = "ok"
    IN  IF atOk /\ job.deleteAfterRun THEN Removed(done)
        ELSE IF atOk THEN [done EXCEPT !.enabled = FALSE, !.state.nextRunAtMs = NoNum]
        ELSE IF job.enabled
        THEN [done EXCEPT !.state.nextRunAtMs = computeJobNextRunAtMs(job, result.endedAt)]
        ELSE [done EXCEPT !.state.nextRunAtMs = NoNum]

RECURSIVE ApplyResults(_, _)
ApplyResults(jobs, results) ==
    IF results = <<>> THEN jobs
    ELSE LET result == Head(results) IN
         ApplyResults(IF jobs[result.jobId].present
                      THEN [jobs EXCEPT ![result.jobId] = ApplyResult(jobs[result.jobId], result)]
                      ELSE jobs,
                      Tail(results))

\* executeJob, finish(status) and the finally block after it.
FinishJob(job, status, startedAt, endedAt, forced) ==
    LET done == [job EXCEPT !.state.runningAtMs = NoNum,
                            !.state.lastRunAtMs = startedAt,
                            !.state.lastStatus = status,
                            !.state.lastError = ErrorOf(status)]
        atOk == job.schedule.kind = "at" /\ status = "ok"
    IN  IF atOk /\ job.deleteAfterRun THEN Removed(done)
        ELSE IF atOk THEN [done EXCEPT !.enabled = FALSE, !.state.nextRunAtMs = NoNum]
        ELSE IF job.enabled
        THEN [done EXCEPT !.state.nextRunAtMs = computeJobNextRunAtMs(job, endedAt)]
        ELSE [done EXCEPT !.state.nextRunAtMs = NoNum]

MAX_TIMER_DELAY_MS == 60000

NoTimer == [armed |-> FALSE, delay |-> NoNum]

Timer(delay) == [armed |-> TRUE, delay |-> delay]

Min(a, b) == IF a <= b THEN a ELSE b

\* nextWakeAtMs(state) of jobs.js: the soonest nextRunAtMs of the enabled
\* jobs, none without such a job.
nextWakeAtMs(jobs) ==
    Only({IF wakes = {} THEN NoNum ELSE CHOOSE w \in wakes : \A v \in wakes : w <= v :
            wakes \in {{jobs[j].state.nextRunAtMs :
                            j \in {i \in DOMAIN jobs :
                                      /\ jobs[i].present /\ jobs[i].enabled
                                      /\ jobs[i].state.nextRunAtMs # NoNum}}}})

\* The cron service as armTimer sees it: timeouts counts the timeouts of
\* the service that are pending.
CronState(stateTimer, timeouts, jobs, cronEnabled, now) ==
    [timer |-> stateTimer, timeouts |-> timeouts, jobs |-> jobs,
     cronEnabled |-> cronEnabled, now |-> now]

armTimerKeepsOldTimer(state) ==
    Only({IF ~state.cronEnabled \/ nextAt = NoNum \/ nextAt = 0
          THEN [state EXCEPT !.timer = NoTimer]
          ELSE [state EXCEPT
                  !.timer = Timer(Min(Max(nextAt - state.now, 0), MAX_TIMER_DELAY_MS)),
                  !.timeouts = @ + 1] :
            nextAt \in {nextWakeAtMs(state.jobs)}})

\* armTimer(state)
armTimer(state) ==
    Only({IF ~state.cronEnabled \/ nextAt = NoNum \/ nextAt = 0
          THEN [state EXCEPT !.timer = NoTimer, !.timeouts = cleared]
          ELSE [state EXCEPT
                  !.timer = Timer(Min(Max(nextAt - state.now, 0), MAX_TIMER_DELAY_MS)),
                  !.timeouts = cleared + 1] :
            nextAt \in {nextWakeAtMs(state.jobs)},
            cleared \in {IF state.timer.armed THEN state.timeouts - 1 ELSE state.timeouts}})

\* stopTimer(state)
stopTimer(state) ==
    [state EXCEPT !.timer = NoTimer,
                  !.timeouts = IF state.timer.armed THEN @ - 1 ELSE @]

NoTick == [phase |-> "idle", due |-> <<>>, current |-> None, startedAt |-> NoNum,
           results |-> <<>>]

NoRunner == [by |-> "none", job |-> None, forced |-> FALSE, startedAt |-> NoNum,
             pending |-> <<>>, direct |-> 0]

\* Job stores the service starts from: an every-2 job and a one-shot job at
\* 1, both scheduled; the same with the first job still marked running by a
\* process that died and the one-shot deleting itself after its run.
SeedJobs ==
    {[j \in JobIds |->
        IF j = "j1" THEN CronJob(Schedule("every", NoNum, 2, 0), FALSE, JobState(NoNum, 2))
        ELSE CronJob(Schedule("at", 1, NoNum, NoNum), FALSE, JobState(NoNum, 1))],
     [j \in JobIds |->
        IF j = "j1" THEN CronJob(Schedule("every", NoNum, 2, 0), FALSE, JobState(0, 2))
        ELSE CronJob(Schedule("at", 1, NoNum, NoNum), TRUE, JobState(NoNum, 1))]}

NoJobs ==
    [j \in JobIds |->
        Removed(CronJob(Schedule("at", 1, NoNum, NoNum), FALSE, JobState(NoNum, NoNum)))]

CronIdle ==
    /\ nowMs = 0
    /\ jobsFile = NoJobs
    /\ cronStore = NoJobs
    /\ cronRunning = FALSE
    /\ cronLocked = FALSE
    /\ service = "down"
    /\ tick = NoTick
    /\ runner = NoRunner
    /\ executing = [j \in JobIds |-> 0]
    /\ timer = NoTimer

\* state.timer after armTimer(state), the service being enabled.
TimerArmedFor(jobs) ==
    armTimer(CronState(timer, IF timer.armed THEN 1 ELSE 0, jobs, TRUE, nowMs)).timer

CronFrame == UNCHANGED <<storeVars, coordVars, streamVars, pureVars, chatVars>>

TimePasses ==
    /\ nowMs < MaxNow
    /\ nowMs' = nowMs + 1
    /\ UNCHANGED <<jobsFile, cronStore, cronRunning, cronLocked, service, tick, runner,
                   executing>>
    /\ UNCHANGED timer
    /\ CronFrame

\* The service starts: it loads the store and runs the missed jobs before
\* any timer is armed.
CronStart ==
    /\ service = "down"
    /\ service' = "recovering"
    /\ cronLocked' = TRUE
    /\ cronStore' = jobsFile
    /\ runner' = [NoRunner EXCEPT !.by = "missed", !.pending = MissedJobs(jobsFile, nowMs),
                                  !.direct = runner.direct]
    /\ UNCHANGED <<nowMs, jobsFile, cronRunning, tick, executing>>
    /\ UNCHANGED timer
    /\ CronFrame

\* executeJob up to its await of executeJobCore.
ExecuteJobStarts(by, j, forced, pending) ==
    /\ cronStore' = [cronStore EXCEPT ![j].state.runningAtMs = nowMs,
                                      ![j].state.lastError = None]
    /\ executing' = [executing EXCEPT ![j] = @ + 1]
    /\ runner' = [by |-> by, job |-> j, forced |-> forced, startedAt |-> nowMs,
                  pending |-> pending,
                  direct |-> IF by = "direct" THEN runner.direct + 1 ELSE runner.direct]

\* runMissedJobs: the next missed job is executed.
MissedJobStarts ==
    /\ service = "recovering"
    /\ runner.job = None
    /\ runner.pending # <<>>
    /\ ExecuteJobStarts("missed", Head(runner.pending), FALSE, Tail(runner.pending))
    /\ UNCHANGED <<nowMs, jobsFile, cronRunning, cronLocked, service, tick>>
    /\ UNCHANGED timer
    /\ CronFrame

\* The missed jobs have run: the store is persisted and timer-driven
\* operation begins.
RecoveryDone ==
    /\ service = "recovering"
    /\ runner.job = None
    /\ runner.pending = <<>>
    /\ jobsFile' = cronStore
    /\ service' = "up"
    /\ cronLocked' = FALSE
    /\ runner' = [NoRunner EXCEPT !.direct = runner.direct]
    /\ timer' = TimerArmedFor(cronStore)
    /\ UNCHANGED <<nowMs, cronStore, cronRunning, tick, executing>>
    /\ CronFrame

\* The service stops between two operations: the timer is cleared, and the
\* next start loads the store anew.
CronStop ==
    /\ service = "up"
    /\ ~cronRunning
    /\ ~cronLocked
    /\ runner.by = "none"
    /\ service' = "down"
    /\ timer' = stopTimer(CronState(timer, IF timer.armed THEN 1 ELSE 0, cronStore,
                                    TRUE, nowMs)).timer
    /\ cronStore' = NoJobs
    /\ UNCHANGED <<nowMs, jobsFile, cronRunning, cronLocked, tick, runner, executing>>
    /\ CronFrame

\* executeJob(state, job, nowMs, {forced}) called for a stored job, as the
\* run command does, under the lock.
DirectRun(j, forced) ==
    /\ service = "up"
    /\ ~cronLocked
    /\ runner.by = "none"
    /\ runner.direct < MaxDirectRuns
    /\ cronStore[j].present
    /\ cronLocked' = TRUE
    /\ ExecuteJobStarts("direct", j, forced, <<>>)
    /\ UNCHANGED <<nowMs, jobsFile, cronRunning, service, tick>>
    /\ UNCHANGED timer
    /\ CronFrame

\* executeJobCore returns or throws in executeJob: finish and the finally
\* block; a direct run then persists and releases the lock.
ExecuteJobEnds(status) ==
    /\ runner.job # None
    /\ \E finished \in {FinishJob(cronStore[runner.job], status, runner.startedAt,
                                  nowMs, runner.forced)} :
       \E job \in {IF ~runner.forced /\ finished.enabled /\ finished.present
                   THEN [finished EXCEPT
                            !.state.nextRunAtMs = computeJobNextRunAtMs(finished, nowMs)]
                   ELSE finished} :
          /\ cronStore' = [cronStore EXCEPT ![runner.job] = job]
          /\ IF runner.by = "direct"
             THEN /\ jobsFile' = cronStore'
                  /\ cronLocked' = FALSE
                  /\ runner' = [NoRunner EXCEPT !.direct = runner.direct]
             ELSE /\ runner' = [runner EXCEPT !.job = None]
                  /\ UNCHANGED <<jobsFile, cronLocked>>
    /\ executing' = [executing EXCEPT ![runner.job] = @ - 1]
    /\ UNCHANGED <<nowMs, cronRunning, service, tick>>
    /\ UNCHANGED timer
    /\ CronFrame

\* The timer fires: onTimer returns at once while a tick is running, and
\* otherwise sets state.running and asks for the lock.
OnTimer ==
    /\ service = "up"
    /\ timer.armed
    /\ ~cronRunning
    /\ timer' = NoTimer
    /\ cronRunning' = TRUE
    /\ tick' = [NoTick EXCEPT !.phase = "waiting"]
    /\ UNCHANGED <<nowMs, jobsFile, cronStore, cronLocked, service, runner, executing>>
    /\ CronFrame

TickMarksDueWithoutPersist(persistThrows) ==
    /\ tick.phase = "waiting"
    /\ ~cronLocked
    /\ \E due \in {findDueJobs(jobsFile, nowMs)} :
          IF due = <<>> \/ persistThrows
          THEN /\ cronStore' = IF due = <<>> THEN recomputeNextRuns(jobsFile, nowMs)
                               ELSE MarkRunning(jobsFile, due, nowMs)
               /\ jobsFile' = IF persistThrows THEN jobsFile ELSE cronStore'
               /\ cronRunning' = FALSE
               /\ tick' = NoTick
               /\ timer' = TimerArmedFor(cronStore')
          ELSE /\ cronStore' = MarkRunning(jobsFile, due, nowMs)
               /\ jobsFile' = jobsFile
               /\ tick' = [tick EXCEPT !.phase = "executing", !.due = due]
               /\ UNCHANGED <<cronRunning, timer>>
    /\ UNCHANGED <<nowMs, cronLocked, service, runner, executing>>
    /\ CronFrame

\* onTimer, first locked section: reload, find the due jobs, mark them
\* running and persist; without due jobs the tick ends here.  When persist
\* throws, the tick ends in the finally block.
TickMarksDue(persistThrows) ==
    /\ tick.phase = "waiting"
    /\ ~cronLocked
    /\ \E due \in {findDueJobs(jobsFile, nowMs)} :
          IF due = <<>> \/ persistThrows
          THEN /\ cronStore' = IF due = <<>> THEN recomputeNextRuns(jobsFile, nowMs)
                               ELSE MarkRunning(jobsFile, due, nowMs)
               /\ jobsFile' = IF persistThrows THEN jobsFile ELSE cronStore'
               /\ cronRunning' = FALSE
               /\ tick' = NoTick
               /\ timer' = TimerArmedFor(cronStore')
          ELSE /\ cronStore' = MarkRunning(jobsFile, due, nowMs)
               /\ jobsFile' = cronStore'
               /\ tick' = [tick EXCEPT !.phase = "executing", !.due = due]
               /\ UNCHANGED <<cronRunning, timer>>
    /\ UNCHANGED <<nowMs, cronLocked, service, runner, executing>>
    /\ CronFrame

\* onTimer, the loop over the due jobs: the next one starts.
TickJobStarts ==
    /\ tick.phase = "executing"
    /\ tick.due # <<>>
    /\ tick.current = None
    /\ \E j \in {Head(tick.due)} :
          /\ cronStore' = IF cronStore[j].present
                          THEN [cronStore EXCEPT ![j].state.runningAtMs = nowMs]
                          ELSE cronStore
          /\ executing' = [executing EXCEPT ![j] = @ + 1]
          /\ tick' = [tick EXCEPT !.current = j, !.startedAt = nowMs]
    /\ UNCHANGED <<nowMs, jobsFile, cronRunning, cronLocked, service, runner>>
    /\ UNCHANGED timer
    /\ CronFrame

TickJobEndsAbortsTick(status) ==
    /\ tick.phase = "executing"
    /\ tick.current # None
    /\ executing' = [executing EXCEPT ![tick.current] = @ - 1]
    /\ tick' = [tick EXCEPT
                  !.results = Append(@, JobResult(tick.current, status, tick.startedAt, nowMs)),
                  !.due = IF status = "error" THEN <<>> ELSE Tail(@),
                  !.current = None]
    /\ UNCHANGED <<nowMs, jobsFile, cronStore, cronRunning, cronLocked, service, runner>>
    /\ UNCHANGED timer
    /\ CronFrame

\* executeJobCore returns (status) or throws (error) in the loop.
TickJobEnds(status) ==
    /\ tick.phase = "executing"
    /\ tick.current # None
    /\ executing' = [executing EXCEPT ![tick.current] = @ - 1]
    /\ tick' = [tick EXCEPT
                  !.results = Append(@, JobResult(tick.current, status, tick.startedAt, nowMs)),
                  !.due = Tail(@),
                  !.current = None]
    /\ UNCHANGED <<nowMs, jobsFile, cronStore, cronRunning, cronLocked, service, runner>>
    /\ UNCHANGED timer
    /\ CronFrame

\* onTimer, second locked section and the finally block: reload, apply the
\* results, recompute, persist; state.running is cleared and the timer
\* armed, also when persist throws.
TickAppliesResults(persistThrows) ==
    /\ tick.phase = "executing"
    /\ tick.due = <<>>
    /\ tick.current = None
    /\ ~cronLocked
    /\ cronStore' = recomputeNextRuns(ApplyResults(jobsFile, tick.results), nowMs)
    /\ jobsFile' = IF persistThrows THEN jobsFile ELSE cronStore'
    /\ cronRunning' = FALSE
    /\ tick' = NoTick
    /\ timer' = TimerArmedFor(cronStore')
    /\ UNCHANGED <<nowMs, cronLocked, service, runner, executing>>
    /\ CronFrame

(***************************************************************************)
(* Pure functions applied to arguments: fnArgs names the function and its  *)
(* arguments from the start, fnResult is filled in by the call.            *)
(***************************************************************************)
NoArgs == [fn |-> None]

NoResult == [done |-> FALSE]

Returned(value) == [done |-> TRUE, value |-> value]

PureIdle == fnArgs = NoArgs /\ fnResult = NoResult

PureFrame ==
    UNCHANGED <<storeVars, coordVars, streamVars, cronVars, fnArgs, chatVars>>

(***************************************************************************)
(* Session keys of inbound messages (routing/session-key.ts).  A string is *)
(* the sequence of its tokens: a token is a word of the characters an id   *)
(* may hold, or one character an id may not hold.                          *)
(***************************************************************************)
DEFAULT_AGENT_ID   == "main"
DEFAULT_MAIN_KEY   == "main"
DEFAULT_ACCOUNT_ID == "default"

\* The tokens /[^a-z0-9_-]/i matches.
InvalidIdChars == {" ", ":", "+", "*", "/"}

\* .replace(/[^a-z0-9_-]+/g, "-"): every run of invalid characters becomes
\* one "-".
RECURSIVE CollapseInvalid(_)
CollapseInvalid(toks) ==
    IF toks = <<>> THEN <<>>
    ELSE IF Head(toks) \notin InvalidIdChars
    THEN <<Head(toks)>> \o CollapseInvalid(Tail(toks))
    ELSE IF Len(toks) >= 2 /\ toks[2] \in InvalidIdChars
    THEN CollapseInvalid(Tail(toks))
    ELSE <<"-">> \o CollapseInvalid(Tail(toks))

\* .replace(/^-+/, "").replace(/-+$/, "") on tokens, a word never being "-"
RECURSIVE StripDashes(_)
StripDashes(toks) ==
    IF toks # <<>> /\ Head(toks) = "-" THEN StripDashes(Tail(toks))
    ELSE IF toks # <<>> /\ toks[Len(toks)] = "-"
    THEN StripDashes(SubSeq(toks, 1, Len(toks) - 1))
    ELSE toks

\* The body normalizeAgentId and normalizeAccountId share.
NormalizeId(value, default) ==
    Only({IF trimmed = <<>> THEN default
          ELSE IF \A i \in DOMAIN trimmed : trimmed[i] \notin InvalidIdChars
          THEN JoinTokens(trimmed)
          ELSE Only({IF collapsed = "" THEN default ELSE collapsed :
                       collapsed \in {JoinTokens(StripDashes(CollapseInvalid(
                                                     LowerToks(trimmed))))}}) :
            trimmed \in {Trim(value)}})

normalizeAgentId(value) == NormalizeId(value, DEFAULT_AGENT_ID)

normalizeAccountIdBlank(value) == JoinTokens(Trim(value))

normalizeAccountId(value) == NormalizeId(value, DEFAULT_ACCOUNT_ID)

normalizeMainKey(value) ==
    Only({IF trimmed = <<>> THEN DEFAULT_MAIN_KEY ELSE JoinTokens(trimmed) :
            trimmed \in {Trim(value)}})

buildAgentMainSessionKey(agentId, mainKey) ==
    "agent:" \o normalizeAgentId(agentId) \o ":" \o normalizeMainKey(mainKey)

\* (params.channel ?? "").trim().toLowerCase() || "unknown"
ChannelOrUnknown(channelId) ==
    Only({IF c = "" THEN "unknown" ELSE c : c \in {JoinTokens(LowerToks(Trim(channelId)))}})

\* buildAgentPeerSessionKey with the DM scope ignored: every DM in the main
\* session.
buildAgentPeerSessionKeyMainOnly(agentId, mainKey, channelId, peerKind, peerId, dmScope) ==
    IF peerKind \in {None, "dm"}
    THEN buildAgentMainSessionKey(agentId, mainKey)
    ELSE "agent:" \o normalizeAgentId(agentId) \o ":" \o ChannelOrUnknown(channelId)
         \o ":" \o peerKind \o ":"
         \o (IF Trim(peerId) = <<>> THEN "unknown" ELSE JoinTokens(Trim(peerId)))

\* buildAgentPeerSessionKey that files a DM under its peer whatever the scope.
buildAgentPeerSessionKeyPerPeer(agentId, mainKey, channelId, peerKind, peerId, dmScope) ==
    IF peerKind \in {None, "dm"}
    THEN IF Trim(peerId) # <<>>
         THEN "agent:" \o normalizeAgentId(agentId) \o ":dm:" \o JoinTokens(Trim(peerId))
         ELSE buildAgentMainSessionKey(agentId, mainKey)
    ELSE "agent:" \o normalizeAgentId(agentId) \o ":" \o ChannelOrUnknown(channelId)
         \o ":" \o peerKind \o ":"
         \o (IF Trim(peerId) = <<>> THEN "unknown" ELSE JoinTokens(Trim(peerId)))

\* peerKind and dmScope are None when the caller leaves them out.
buildAgentPeerSessionKey(agentId, mainKey, channelId, peerKind, peerId, dmScope) ==
    IF peerKind \in {None, "dm"}
    THEN Only({IF scope = "per-channel-peer" /\ Trim(peerId) # <<>>
               THEN "agent:" \o normalizeAgentId(agentId) \o ":" \o ChannelOrUnknown(channelId)
                    \o ":dm:" \o JoinTokens(Trim(peerId))
               ELSE IF scope = "per-peer" /\ Trim(peerId) # <<>>
               THEN "agent:" \o normalizeAgentId(agentId) \o ":dm:" \o JoinTokens(Trim(peerId))
               ELSE buildAgentMainSessionKey(agentId, mainKey) :
                 scope \in {IF dmScope = None THEN "main" ELSE dmScope}})
    ELSE "agent:" \o normalizeAgentId(agentId) \o ":" \o ChannelOrUnknown(channelId)
         \o ":" \o peerKind \o ":"
         \o (IF Trim(peerId) = <<>> THEN "unknown" ELSE JoinTokens(Trim(peerId)))

(***************************************************************************)
(* The route resolver (routing/resolve-route.ts): the bindings of the      *)
(* configuration applied to an inbound event.  A field left out is the     *)
(* empty string <<>>; a peer left out is NoPeer.                           *)
(***************************************************************************)
NoPeer == [kind |-> None, id |-> <<>>]

Peer(kind, id) == [kind |-> kind, id |-> id]

Binding(agentId, channelId, accountId, peer, guildId) ==
    [agentId |-> agentId,
     match   |-> [channel |-> channelId, accountId |-> accountId, peer |-> peer,
                  guildId |-> guildId]]

InboundEvent(channelId, accountId, peer, guildId) ==
    [channel |-> channelId, accountId |-> accountId, peer |-> peer, guildId |-> guildId]

RouteConfig(bindings, defaultAgent, dmScope, mainKey) ==
    [bindings |-> bindings, defaultAgent |-> defaultAgent, dmScope |-> dmScope,
     mainKey |-> mainKey]

normalizeToken(value) == JoinTokens(LowerToks(Trim(value)))

matchesChannel(match, channelId) ==
    normalizeToken(match.channel) # "" /\ normalizeToken(match.channel) = normalizeToken(channelId)

\* A rule without accountId is a rule of the default account; "*" is a rule
\* of every account.
matchesAccountId(matchAccountId, actual) ==
    Only({IF trimmed = "" THEN actual = DEFAULT_ACCOUNT_ID
          ELSE IF trimmed = "*" THEN TRUE
          ELSE trimmed = actual :
            trimmed \in {JoinTokens(Trim(matchAccountId))}})

matchesPeer(match, peer) ==
    /\ match.peer.kind # None
    /\ peer.kind # None
    /\ Trim(match.peer.id) # <<>>
    /\ match.peer.kind = peer.kind
    /\ JoinTokens(Trim(match.peer.id)) = JoinTokens(Trim(peer.id))

matchesGuild(match, guildId) ==
    /\ Trim(match.guildId) # <<>>
    /\ JoinTokens(Trim(match.guildId)) = JoinTokens(Trim(guildId))

\* bindings.find(...): the index of the first binding among S, 0 without one
FirstIndex(S) == IF S = {} THEN 0 ELSE CHOOSE i \in S : \A j \in S : i <= j

resolveDefaultAgentId(cfg) ==
    IF Trim(cfg.defaultAgent) = <<>> THEN DEFAULT_AGENT_ID ELSE normalizeAgentId(cfg.defaultAgent)

ResolvedRoute(cfg, ev, agentId, matchedBy) ==
    [agentId    |-> normalizeAgentId(agentId),
     accountId  |-> normalizeAccountId(ev.accountId),
     sessionKey |-> buildAgentPeerSessionKey(agentId, cfg.mainKey, ev.channel, ev.peer.kind,
                                             ev.peer.id, cfg.dmScope),
     matchedBy  |-> matchedBy]

IsPlainMatch(match) == match.peer.kind = None /\ Trim(match.guildId) = <<>>

\* The bindings of the event's channel and account, by index.
CandidateBindings(cfg, ev) ==
    {i \in DOMAIN cfg.bindings :
        /\ matchesChannel(cfg.bindings[i].match, ev.channel)
        /\ matchesAccountId(cfg.bindings[i].match.accountId,
                            normalizeAccountId(ev.accountId))}

\* The first candidate of each tier: peer, guild, account, channel.
TierMatches(cfg, ev, candidates) ==
    <<FirstIndex({i \in candidates : matchesPeer(cfg.bindings[i].match, ev.peer)}),
      IF Trim(ev.guildId) = <<>> THEN 0
      ELSE FirstIndex({i \in candidates : matchesGuild(cfg.bindings[i].match, ev.guildId)}),
      FirstIndex({i \in candidates :
                    /\ JoinTokens(Trim(cfg.bindings[i].match.accountId)) # "*"
                    /\ IsPlainMatch(cfg.bindings[i].match)}),
      FirstIndex({i \in candidates :
                    /\ JoinTokens(Trim(cfg.bindings[i].match.accountId)) = "*"
                    /\ IsPlainMatch(cfg.bindings[i].match)})>>

TierNames == <<"binding.peer", "binding.guild", "binding.account", "binding.channel">>

\* The route of the first tier that has a match, the default agent without one.
RouteOfTiers(cfg, ev, found) ==
    IF \A t \in 1..4 : found[t] = 0
    THEN ResolvedRoute(cfg, ev, <<resolveDefaultAgentId(cfg)>>, "default")
    ELSE Only({ResolvedRoute(cfg, ev, cfg.bindings[found[t]].agentId, TierNames[t]) :
                 t \in {FirstIndex({u \in 1..4 : found[u] # 0})}})

\* resolveAgentRoute that takes the first declared binding of any tier.
resolveAgentRouteDeclarationOrder(cfg, ev) ==
    Only({RouteOfTiers(cfg, ev, [t \in 1..4 |->
                                   IF first # 0 /\ found[t] = first THEN first ELSE 0]) :
            found \in {TierMatches(cfg, ev, CandidateBindings(cfg, ev))},
            first \in {FirstIndex(CandidateBindings(cfg, ev))}})

resolveAgentRoute(cfg, ev) ==
    Only({RouteOfTiers(cfg, ev, found) :
            found \in {TierMatches(cfg, ev, CandidateBindings(cfg, ev))}})

(***************************************************************************)
(* The environment of a host command (host-env-security.ts).  A variable   *)
(* name is the sequence of its tokens: a blank, a "-", a blocked prefix or  *)
(* a word of letters, digits and "_".  An environment is the sequence of   *)
(* its entries in the order Object.entries() yields them.                  *)
(***************************************************************************)
\* HOST_ENV_SECURITY_POLICY, in upper case
HOST_DANGEROUS_ENV_KEYS == {<<"BASH_ENV">>}

HOST_DANGEROUS_ENV_PREFIXES == {<<"LD_">>, <<"DYLD_">>, <<"BASH_FUNC_">>}

UpperTok(tok) ==
    CASE tok = "Path"     -> "PATH"
      [] tok = "bash_env" -> "BASH_ENV"
      [] tok = "ld_"      -> "LD_"
      [] tok = "preload"  -> "PRELOAD"
      [] tok = "ok"       -> "OK"
      [] OTHER -> tok

toUpperCase(key) == [i \in 1..Len(key) |-> UpperTok(key[i])]

\* PORTABLE_ENV_VAR_KEY = /^[A-Za-z_][A-Za-z0-9_]*$/
NonPortableTokens == {" ", "-", "%"}

IsPortableKey(key) == key # <<>> /\ \A i \in 1..Len(key) : key[i] \notin NonPortableTokens

\* null
NoKey == <<>>

normalizeEnvVarKey(rawKey, portable) ==
    Only({IF key = <<>> THEN NoKey
          ELSE IF portable /\ ~IsPortableKey(key) THEN NoKey
          ELSE key : key \in {Trim(rawKey)}})

StartsWith(s, prefix) == Len(s) >= Len(prefix) /\ SubSeq(s, 1, Len(prefix)) = prefix

isDangerousHostEnvVarNameCaseSensitive(rawKey) ==
    Only({IF key = NoKey THEN FALSE
          ELSE \/ key \in HOST_DANGEROUS_ENV_KEYS
               \/ \E prefix \in HOST_DANGEROUS_ENV_PREFIXES : StartsWith(key, prefix) :
            key \in {normalizeEnvVarKey(rawKey, FALSE)}})

isDangerousHostEnvVarName(rawKey) ==
    Only({IF key = NoKey THEN FALSE
          ELSE \/ toUpperCase(key) \in HOST_DANGEROUS_ENV_KEYS
               \/ \E prefix \in HOST_DANGEROUS_ENV_PREFIXES :
                     StartsWith(toUpperCase(key), prefix) :
            key \in {normalizeEnvVarKey(rawKey, FALSE)}})

\* An entry of an environment; a value that is no string is Undefined.
Undefined == "undefined"

EnvEntry(name, value) == [name |-> name, value |-> value]

\* merged: the variables by name
EmptyEnv == [name \in {} |-> Undefined]

\* merged[key] = value
SetVar(merged, key, value) ==
    [name \in DOMAIN merged \cup {key} |-> IF name = key THEN value ELSE merged[name]]

\* the loop over Object.entries(baseEnv)
RECURSIVE MergeBaseEnv(_, _)
MergeBaseEnv(merged, entries) ==
    IF entries = <<>> THEN merged
    ELSE MergeBaseEnv(
            Only({IF Head(entries).value = Undefined THEN merged
                  ELSE IF key = NoKey \/ isDangerousHostEnvVarName(key) THEN merged
                  ELSE SetVar(merged, key, Head(entries).value) :
                    key \in {normalizeEnvVarKey(Head(entries).name, TRUE)}}),
            Tail(entries))

\* the loop over Object.entries(overrides)
RECURSIVE MergeOverrides(_, _, _)
MergeOverrides(merged, entries, blockPathOverrides) ==
    IF entries = <<>> THEN merged
    ELSE MergeOverrides(
            Only({IF Head(entries).value = Undefined THEN merged
                  ELSE IF key = NoKey THEN merged
                  ELSE IF blockPathOverrides /\ toUpperCase(key) = <<"PATH">> THEN merged
                  ELSE IF isDangerousHostEnvVarName(toUpperCase(key)) THEN merged
                  ELSE SetVar(merged, key, Head(entries).value) :
                    key \in {normalizeEnvVarKey(Head(entries).name, TRUE)}}),
            Tail(entries), blockPathOverrides)

\* overrides: null, or the entries of the object
NoOverrides == [present |-> FALSE, entries |-> <<>>]

Overrides(entries) == [present |-> TRUE, entries |-> entries]

sanitizeHostExecEnv(baseEnv, overrides, blockPathOverrides) ==
    IF ~overrides.present THEN MergeBaseEnv(EmptyEnv, baseEnv)
    ELSE MergeOverrides(MergeBaseEnv(EmptyEnv, baseEnv), overrides.entries,
                        blockPathOverrides)

(***************************************************************************)
(* The session store under its handlers.                                   *)
(***************************************************************************)
\* Store files the gateway starts from: empty; a main session filed under
\* the legacy key next to a subagent session; a main session under its
\* canonical key next to a subagent session that has its spawner recorded.
SeedStores ==
    {EmptyStore,
     [EmptyStore EXCEPT ![KLegacyMain] = SeedEntry(1), ![KSub] = SeedEntry(2)],
     [EmptyStore EXCEPT ![KMain] = SeedEntry(1),
                        ![KSub] = [SeedEntry(2) EXCEPT !.spawnedBy = "a"]]}

\* An entry with every preference a patch can set, and the stores patches
\* are sent to: the seeded stores and one of entries patched before.
PatchedEntry(id) ==
    [SeedEntry(id) EXCEPT !.verboseLevel = "on", !.reasoningLevel = "stream",
                          !.responseUsage = "on", !.elevatedLevel = "on",
                          !.providerOverride = "openai", !.modelOverride = "gpt-4",
                          !.groupActivation = "always"]

PatchSeedStores ==
    SeedStores \cup
    {[EmptyStore EXCEPT ![KMain] = PatchedEntry(1),
                        ![KSub] = [PatchedEntry(2) EXCEPT !.spawnedBy = "a"]]}

FirstId == 3

\* The patches sent while sessions are also reset, deleted and run.
LifecyclePatches ==
    {[AbsentRequest EXCEPT !["spawnedBy"] = Value(<<" ", "a">>)],
     [AbsentRequest EXCEPT !["spawnedBy"] = Value(<<"b">>)],
     [AbsentRequest EXCEPT !["model"] = Value(<<"openai", "/", "gpt-4">>)],
     [AbsentRequest EXCEPT !["thinkingLevel"] = Value(<<"off">>)],
     [AbsentRequest EXCEPT !["verboseLevel"] = Value(<<"on">>),
                           !["sendPolicy"] = Value(<<"bogus">>)]}

InitStore ==
    /\ store \in SeedStores
    /\ config = CfgAllowlist
    /\ nextId = FirstId
    /\ clock = 0
    /\ runs = {}
    /\ dedupe = {}
    /\ turn = NoTurn
    /\ resp = NoResponse
    /\ CoordIdle
    /\ StreamIdle
    /\ CronIdle
    /\ PureIdle
    /\ ChatIdle

NextStore ==
    \/ \E key \in RequestKeys, p \in LifecyclePatches : SessionsPatch(key, p)
    \/ \E key \in RequestKeys, p \in LifecyclePatches : BridgeSessionsPatch(key, p)
    \/ \E key \in RequestKeys : SessionsReset(key)
    \/ \E key \in RequestKeys : BridgeSessionsReset(key)
    \/ \E key \in RequestKeys, ended \in BOOLEAN : SessionsDelete(key, ended)
    \/ \E key \in RequestKeys, ended \in BOOLEAN : BridgeSessionsDelete(key, ended)
    \/ \E key \in RequestKeys, transcript \in {"missing", "short", "long"} :
            SessionsCompact(key, transcript)
    \/ \E key \in RequestKeys, transcript \in {"missing", "short", "long"} :
            BridgeSessionsCompact(key, transcript)
    \/ \E key \in StoreKeys, clientRunId \in IdempotencyKeys : BridgeChatSend(key, clientRunId)
    \/ \E key \in RequestKeys : BridgeVoiceTranscript(key)
    \/ \E key \in StoreKeys : BridgeAgentRequest(key)
    \/ \E r \in runs : AgentCommandEnd(r)
    \/ \E key \in StoreKeys : TurnStart(key)
    \/ TurnEngineEnd
    \/ \E hasUsage \in BOOLEAN : TurnComplete(hasUsage)

SpecStore == InitStore /\ [][NextStore]_vars

(***************************************************************************)
(* sessions.patch alone, over the requests of up to MaxPatchFields fields. *)
(***************************************************************************)
MaxPatchOps == 1

InitPatch ==
    /\ store \in PatchSeedStores
    /\ config \in Configs
    /\ nextId = FirstId
    /\ clock = 0
    /\ runs = {}
    /\ dedupe = {}
    /\ turn = NoTurn
    /\ resp = NoResponse
    /\ CoordIdle
    /\ StreamIdle
    /\ CronIdle
    /\ PureIdle
    /\ ChatIdle

NextPatch ==
    \/ /\ clock < MaxPatchOps
       /\ \E key \in RequestKeys, p \in RequestsUpTo(MaxPatchFields, GatewayFields) :
                SessionsPatch(key, p)
    \/ /\ clock < MaxPatchOps
       /\ \E key \in RequestKeys, p \in RequestsUpTo(MaxPatchFields, BridgeFields) :
                BridgeSessionsPatch(key, p)

SpecPatch == InitPatch /\ [][NextPatch]_vars

(***************************************************************************)
(* The reply-turn coordinator of one session.                              *)
(***************************************************************************)
StoreIdle ==
    /\ store = EmptyStore
    /\ config = CfgAllowlist
    /\ nextId = FirstId
    /\ clock = 0
    /\ runs = {}
    /\ dedupe = {}
    /\ turn = NoTurn
    /\ resp = NoResponse

InitCoord ==
    /\ CoordIdle
    /\ StoreIdle
    /\ StreamIdle
    /\ CronIdle
    /\ PureIdle
    /\ ChatIdle

NextCoord ==
    \/ \E shouldSteer \in BOOLEAN, shouldFollowup \in BOOLEAN,
          mode \in QueueModes, accepts \in BOOLEAN :
            RunReplyAgent(shouldSteer, shouldFollowup, mode, accepts)
    \/ \E r \in active : EngineStreams(r)
    \/ \E r \in active, saveThrows \in BOOLEAN : RunEnds(r, saveThrows)
    \/ DrainNext
    \/ \E r \in active : FollowupRunEnds(r)
    \/ DrainDone

SpecCoord == InitCoord /\ [][NextCoord]_vars

(***************************************************************************)
(* One run with its streamed blocks and final payloads.                    *)
(***************************************************************************)
InitStream ==
    /\ blockStreamingEnabled \in BOOLEAN
    /\ streamedPayloadKeys = {}
    /\ pendingStreamedPayloadKeys = {}
    /\ blockReplyChain = <<>>
    /\ sending = FALSE
    /\ blockReplyAborted = FALSE
    /\ didStreamBlockReply = FALSE
    /\ blocks = 0
    /\ runResult = RunResult("running", <<>>)
    /\ channel = <<>>
    /\ StoreIdle
    /\ CoordIdle
    /\ CronIdle
    /\ PureIdle
    /\ ChatIdle

NextStream ==
    \/ \E payload \in BlockPayloads : OnBlockReply(payload)
    \/ BlockSendStarts
    \/ BlockSent
    \/ BlockSendFails
    \/ \E reached \in BOOLEAN : BlockSendTimesOut(reached)
    \/ \E payloads \in FinalLists : EngineReturns(payloads)
    \/ \E suppressMessagingToolReplies \in BOOLEAN :
            ReturnFinalPayloads(suppressMessagingToolReplies)

SpecStream == InitStream /\ [][NextStream]_vars

(***************************************************************************)
(* The cron service from its start.                                        *)
(***************************************************************************)
InitCron ==
    /\ nowMs \in {0, 2}
    /\ jobsFile \in SeedJobs
    /\ cronStore = NoJobs
    /\ cronRunning = FALSE
    /\ cronLocked = FALSE
    /\ service = "down"
    /\ tick = NoTick
    /\ runner = NoRunner
    /\ executing = [j \in JobIds |-> 0]
    /\ timer = NoTimer
    /\ StoreIdle
    /\ CoordIdle
    /\ StreamIdle
    /\ PureIdle
    /\ ChatIdle

NextCron ==
    \/ TimePasses
    \/ CronStart
    \/ MissedJobStarts
    \/ RecoveryDone
    \/ CronStop
    \/ \E j \in JobIds, forced \in BOOLEAN : DirectRun(j, forced)
    \/ \E status \in RunStatuses : ExecuteJobEnds(status)
    \/ OnTimer
    \/ \E persistThrows \in BOOLEAN : TickMarksDue(persistThrows)
    \/ TickJobStarts
    \/ \E status \in RunStatuses : TickJobEnds(status)
    \/ \E persistThrows \in BOOLEAN : TickAppliesResults(persistThrows)

SpecCron == InitCron /\ [][NextCron]_vars

(***************************************************************************)
(* One sessions.patch request that clears one field, sent again and again. *)
(***************************************************************************)
MaxClearOps == 2        \* times the request is sent

ClearCalls ==
    {[fn |-> "sessions.patch", handler |-> "gateway", key |-> key,
      req |-> [AbsentRequest EXCEPT ![f] = NullVal]] :
        key \in RequestKeys, f \in GatewayFields}
    \cup
    {[fn |-> "sessions.patch", handler |-> "bridge", key |-> key,
      req |-> [AbsentRequest EXCEPT ![f] = NullVal]] :
        key \in RequestKeys, f \in BridgeFields}

ClearField ==
    /\ fnArgs.fn = "sessions.patch"
    /\ fnArgs.handler = "gateway"
    /\ clock < MaxClearOps
    /\ SessionsPatch(fnArgs.key, fnArgs.req)

BridgeClearField ==
    /\ fnArgs.fn = "sessions.patch"
    /\ fnArgs.handler = "bridge"
    /\ clock < MaxClearOps
    /\ BridgeSessionsPatch(fnArgs.key, fnArgs.req)

InitClear ==
    /\ store \in PatchSeedStores
    /\ config \in Configs
    /\ nextId = FirstId
    /\ clock = 0
    /\ runs = {}
    /\ dedupe = {}
    /\ turn = NoTurn
    /\ resp = NoResponse
    /\ CoordIdle
    /\ StreamIdle
    /\ CronIdle
    /\ ChatIdle
    /\ fnArgs \in ClearCalls
    /\ fnResult = NoResult

NextClear ==
    \/ ClearField
    \/ BridgeClearField

SpecClear == InitClear /\ [][NextClear]_vars

(***************************************************************************)
(* buildAllowedModelSet over allowlists, catalogs and default models.      *)
(***************************************************************************)
MaxAllowlist == 2       \* keys of cfg.agent.models

\* Keys an allowlist may hold: of the catalog, outside the catalog, without
\* a provider, unparsable, the default model, with a provider to normalise.
AllowlistKeys ==
    {<<"openai", "/", "gpt-4">>, <<"openai", "/", "gpt-5">>, <<"gpt-4">>, <<" ">>,
     <<"claude-cli", "/", "opus-4.5">>, <<" ", "OpenAI", "/", "gpt-3.5">>}

Allowlists ==
    UNION {{ks \in [1..n -> AllowlistKeys] : \A i, j \in 1..n : i # j => ks[i] # ks[j]} :
             n \in 0..MaxAllowlist}

AllowlistConfig(ks) ==
    [models |-> [i \in DOMAIN ks |-> [key |-> ks[i], alias |-> <<>>]], model |-> <<>>]

Catalogs ==
    {{}, {[provider |-> "openai", id |-> "gpt-4"]}, Catalog,
     {[provider |-> "openai", id |-> "gpt-4"],
      [provider |-> "claude-cli", id |-> "opus-4.5"]}}

AllowedModelCalls ==
    {[fn |-> "buildAllowedModelSet", cfg |-> AllowlistConfig(ks), catalog |-> catalog,
      defaultProvider |-> d[1], defaultModel |-> d[2]] :
        ks \in Allowlists, catalog \in Catalogs,
        d \in {<<DEFAULT_PROVIDER, DEFAULT_MODEL>>, <<"openai", "gpt-4">>,
               <<"openai", "">>}}

BuildAllowedModelSet ==
    /\ fnArgs.fn = "buildAllowedModelSet"
    /\ ~fnResult.done
    /\ fnResult' = Returned(buildAllowedModelSet(fnArgs.cfg, fnArgs.catalog,
                                                 fnArgs.defaultProvider, fnArgs.defaultModel))
    /\ PureFrame

InitModels ==
    /\ StoreIdle
    /\ CoordIdle
    /\ StreamIdle
    /\ CronIdle
    /\ ChatIdle
    /\ fnArgs \in AllowedModelCalls
    /\ fnResult = NoResult

NextModels == BuildAllowedModelSet

SpecModels == InitModels /\ [][NextModels]_vars

(***************************************************************************)
(* computeNextRunAtMs over schedules and clock values.                     *)
(***************************************************************************)
MaxEveryMs == 4         \* longest interval of an `every` schedule
MaxAnchorMs == 4        \* latest anchor, and latest time of an `at` schedule
MaxScheduleNow == 9     \* latest clock value

Schedules ==
    {Schedule("every", NoNum, e, a) : e \in 0..MaxEveryMs, a \in {NoNum} \cup 0..MaxAnchorMs}
    \cup {Schedule("at", t, NoNum, NoNum) : t \in 1..MaxAnchorMs}

NextRunCalls ==
    {[fn |-> "computeNextRunAtMs", schedule |-> s, now |-> n] :
        s \in Schedules, n \in 0..MaxScheduleNow}

ComputeNextRunAtMs ==
    /\ fnArgs.fn = "computeNextRunAtMs"
    /\ ~fnResult.done
    /\ fnResult' = Returned(computeNextRunAtMs(fnArgs.schedule, fnArgs.now))
    /\ PureFrame

InitSchedule ==
    /\ StoreIdle
    /\ CoordIdle
    /\ StreamIdle
    /\ CronIdle
    /\ ChatIdle
    /\ fnArgs \in NextRunCalls
    /\ fnResult = NoResult

NextSchedule == ComputeNextRunAtMs

SpecSchedule == InitSchedule /\ [][NextSchedule]_vars

(***************************************************************************)
(* Loading the cron store file (cron/store.ts).  The text of the file is   *)
(* the sequence of its tokens; a store document is "{", the ids of its     *)
(* jobs, "}".                                                              *)
(***************************************************************************)
MaxFileTokens == 3      \* tokens of a store file

FileTokens == {"{", "}", "j1", " "}

MissingFile == [exists |-> FALSE, text |-> <<>>]

StoreFiles ==
    {MissingFile}
    \cup {[exists |-> TRUE, text |-> t] :
            t \in UNION {[1..n -> FileTokens] : n \in 0..MaxFileTokens}}

EmptyCronStore == [version |-> 1, jobs |-> <<>>]

\* JSON.parse of the text of a store file
ParseStoreText(text) ==
    Only({IF /\ Len(t) >= 2
             /\ t[1] = "{"
             /\ t[Len(t)] = "}"
             /\ \A i \in 2..(Len(t) - 1) : t[i] \notin {"{", "}"}
          THEN [ok |-> TRUE,
                value |-> [version |-> 1,
                           jobs |-> SelectSeq(SubSeq(t, 2, Len(t) - 1),
                                              LAMBDA tok : tok # " ")]]
          ELSE [ok |-> FALSE, value |-> EmptyCronStore] :
            t \in {Trim(text)}})

\* loadCronStore that takes an unparsable file for no file.
loadCronStoreSwallowsParseError(file) ==
    IF ~file.exists THEN [ok |-> TRUE, error |-> None, store |-> EmptyCronStore]
    ELSE Only({[ok |-> TRUE, error |-> None, store |-> parsed.value] :
                 parsed \in {ParseStoreText(file.text)}})

loadCronStore(file) ==
    IF ~file.exists THEN [ok |-> TRUE, error |-> None, store |-> EmptyCronStore]
    ELSE Only({IF parsed.ok
               THEN [ok |-> TRUE, error |-> None, store |-> parsed.value]
               ELSE [ok |-> FALSE, error |-> "Failed to parse cron store",
                     store |-> EmptyCronStore] :
                 parsed \in {ParseStoreText(file.text)}})

LoadCronStore ==
    /\ fnArgs.fn = "loadCronStore"
    /\ ~fnResult.done
    /\ fnResult' = Returned(loadCronStore(fnArgs.file))
    /\ PureFrame

InitLoad ==
    /\ StoreIdle
    /\ CoordIdle
    /\ StreamIdle
    /\ CronIdle
    /\ ChatIdle
    /\ fnArgs \in {[fn |-> "loadCronStore", file |-> f] : f \in StoreFiles}
    /\ fnResult = NoResult

NextLoad == LoadCronStore

SpecLoad == InitLoad /\ [][NextLoad]_vars

(***************************************************************************)
(* Routing: resolveAgentRoute over configurations and inbound events, and  *)
(* buildAgentPeerSessionKey over pairs of (channel, peer) of one agent.    *)
(***************************************************************************)
MaxBindings == 3        \* bindings in one configuration

\* The bindings configurations are made of: of the peer, guild, account and
\* channel tiers, for two channels, one of them without accountId.
BindingPool ==
    {Binding(<<"a">>, <<"whatsapp">>, <<"biz">>, Peer("dm", <<"+", "1000">>), <<>>),
     Binding(<<"b">>, <<"whatsapp">>, <<"biz">>, NoPeer, <<>>),
     Binding(<<"b2">>, <<"WhatsApp">>, <<"biz">>, NoPeer, <<>>),
     Binding(<<"defaultAcct">>, <<"whatsapp">>, <<>>, NoPeer, <<>>),
     Binding(<<"any">>, <<"whatsapp">>, <<"*">>, NoPeer, <<>>),
     Binding(<<"chan">>, <<"discord">>, <<"default">>, Peer("channel", <<"c1">>), <<>>),
     Binding(<<"guild">>, <<"discord">>, <<"default">>, NoPeer, <<"g1">>),
     Binding(<<"acct">>, <<"discord">>, <<"default">>, NoPeer, <<>>)}

BindingLists ==
    UNION {{bs \in [1..n -> BindingPool] : \A i, j \in 1..n : i # j => bs[i] # bs[j]} :
             n \in 0..MaxBindings}

InboundEvents ==
    {InboundEvent(<<"whatsapp">>, <<"biz">>, Peer("dm", <<"+", "1000">>), <<>>),
     InboundEvent(<<"whatsapp">>, <<>>, Peer("dm", <<"+", "1000">>), <<>>),
     InboundEvent(<<"whatsapp">>, <<"biz">>, Peer("dm", <<"+", "1999">>), <<>>),
     InboundEvent(<<"discord">>, <<"default">>, Peer("channel", <<"c1">>), <<"g1">>),
     InboundEvent(<<"discord">>, <<>>, Peer("channel", <<"c2">>), <<"g1">>),
     InboundEvent(<<"discord">>, <<"default">>, Peer("dm", <<"u1">>), <<>>)}

DmScopes == {None, "main", "per-peer", "per-channel-peer"}

RouteCalls ==
    {[fn |-> "resolveAgentRoute", cfg |-> RouteConfig(bs, agent, scope, <<>>), event |-> ev] :
        bs \in BindingLists, agent \in {<<>>, <<"home">>},
        scope \in {None, "per-channel-peer"}, ev \in InboundEvents}

KeyChannels ==
    {<<"whatsapp">>, <<"WhatsApp", " ">>, <<"telegram">>, <<>>, <<"x">>, <<"x", ":", "dm">>}

KeyPeerIds == {<<"+", "1555">>, <<" ", "+", "1555">>, <<"+", "1999">>, <<>>, <<"y">>,
               <<"dm", ":", "y">>}

KeyTargets == {[channel |-> c, peerId |-> p] : c \in KeyChannels, p \in KeyPeerIds}

SessionKeyCalls ==
    {[fn |-> "buildAgentPeerSessionKey", agentId |-> a, mainKey |-> m, peerKind |-> k,
      dmScope |-> scope, first |-> t1, second |-> t2] :
        a \in {<<"main">>, <<"Work", " ", "Bot">>}, m \in {<<>>, <<"home">>},
        k \in {None, "dm", "group"}, scope \in DmScopes,
        t1 \in KeyTargets, t2 \in KeyTargets}

ResolveAgentRoute ==
    /\ fnArgs.fn = "resolveAgentRoute"
    /\ ~fnResult.done
    /\ fnResult' = Returned(resolveAgentRoute(fnArgs.cfg, fnArgs.event))
    /\ PureFrame

\* The session keys of two messages that reach the same agent.
BuildAgentPeerSessionKeys ==
    /\ fnArgs.fn = "buildAgentPeerSessionKey"
    /\ ~fnResult.done
    /\ fnResult' = Returned(
           [t \in {"first", "second"} |->
               buildAgentPeerSessionKey(fnArgs.agentId, fnArgs.mainKey, fnArgs[t].channel,
                                        fnArgs.peerKind, fnArgs[t].peerId, fnArgs.dmScope)])
    /\ PureFrame

InitRoute ==
    /\ StoreIdle
    /\ CoordIdle
    /\ StreamIdle
    /\ CronIdle
    /\ ChatIdle
    /\ fnArgs \in RouteCalls \cup SessionKeyCalls
    /\ fnResult = NoResult

NextRoute ==
    \/ ResolveAgentRoute
    \/ BuildAgentPeerSessionKeys

SpecRoute == InitRoute /\ [][NextRoute]_vars

(***************************************************************************)
(* Chat runs of the bridge: chat.send starts them, chat.abort aborts them. *)
(* The context handed to createBridgeHandlers may hold buffered text and a *)
(* delta time under either run id.                                         *)
(***************************************************************************)
InitChat ==
    /\ store \in SeedStores
    /\ config = CfgAllowlist
    /\ nextId = FirstId
    /\ clock = 0
    /\ runs = {}
    /\ dedupe = {}
    /\ turn = NoTurn
    /\ resp = NoResponse
    /\ chatAbortControllers = [runId \in IdempotencyKeys |-> NoController]
    /\ chatRunBuffers \in SUBSET IdempotencyKeys
    /\ chatDeltaSentAt \in SUBSET IdempotencyKeys
    /\ abortSignalled = {}
    /\ chatBroadcasts = <<>>
    /\ chatBridgeSends = <<>>
    /\ lastAbort = NoAbort
    /\ CoordIdle
    /\ StreamIdle
    /\ CronIdle
    /\ PureIdle

NextChat ==
    \/ \E key \in StoreKeys, clientRunId \in IdempotencyKeys : BridgeChatSend(key, clientRunId)
    \/ \E r \in runs : AgentCommandEnd(r)
    \/ \E key \in StoreKeys, runId \in IdempotencyKeys : BridgeChatAbort(key, runId)

SpecChat == InitChat /\ [][NextChat]_vars

(***************************************************************************)
(* chat.send requests whose runs overlap: a request arrives while the      *)
(* agentCommand of an earlier one, with the same idempotency key or        *)
(* another, has not returned.                                              *)
(***************************************************************************)
MaxSends == 2           \* chat.send runs in flight at once

InitSend == InitChat

NextSend ==
    \/ \E key \in StoreKeys, clientRunId \in IdempotencyKeys :
            ChatSendWithin(MaxSends, key, clientRunId)
    \/ \E r \in runs : AgentCommandEnd(r)

SpecSend == InitSend /\ [][NextSend]_vars

(***************************************************************************)
(* A model patch and the model selection of the turn that follows it,     *)
(* under one configuration and the catalog of the gateway.                 *)
(***************************************************************************)
\* value?.trim() of a stored override, "" when the field is not set; the
\* overrides a patch stores are trimmed already.
StoredOverride(value) == IF value = None THEN "" ELSE value

\* createModelSelectionState(params), up to the auth profile: the model of
\* the turn, and the entry with its overrides deleted when they are not
\* among the allowed keys.
createModelSelectionState(params) ==
    LET cfg               == params.cfg
        catalog           == params.catalog
        sessionEntry      == params.sessionEntry
        defaultProvider   == params.defaultProvider
        defaultModel      == params.defaultModel
        hasAllowlist      == cfg.models # <<>>
        hasStoredOverride == \/ StoredOverride(sessionEntry.modelOverride) # ""
                             \/ StoredOverride(sessionEntry.providerOverride) # ""
        needsModelCatalog == params.hasModelDirective \/ hasAllowlist \/ hasStoredOverride
        allowedModelKeys  ==
            IF needsModelCatalog
            THEN buildAllowedModelSet(cfg, catalog, defaultProvider, defaultModel).allowedKeys
            ELSE {}
        overrideProvider  ==
            IF StoredOverride(sessionEntry.providerOverride) # ""
            THEN sessionEntry.providerOverride ELSE defaultProvider
        overrideModel     == StoredOverride(sessionEntry.modelOverride)
        resetModelOverride ==
            /\ sessionEntry.present /\ hasStoredOverride
            /\ overrideModel # ""
            /\ allowedModelKeys # {}
            /\ modelKey(overrideProvider, overrideModel) \notin allowedModelKeys
        entry ==
            IF resetModelOverride
            THEN [sessionEntry EXCEPT !.providerOverride = None, !.modelOverride = None]
            ELSE sessionEntry
        storedModelOverride == StoredOverride(entry.modelOverride)
        candidateProvider ==
            IF StoredOverride(entry.providerOverride) # ""
            THEN entry.providerOverride ELSE defaultProvider
        selected ==
            /\ storedModelOverride # ""
            /\ \/ allowedModelKeys = {}
               \/ modelKey(candidateProvider, storedModelOverride) \in allowedModelKeys
    IN  [provider |-> IF selected THEN candidateProvider ELSE params.provider,
         model |-> IF selected THEN storedModelOverride ELSE params.model,
         allowedModelKeys |-> allowedModelKeys,
         resetModelOverride |-> resetModelOverride,
         needsModelCatalog |-> needsModelCatalog,
         sessionEntry |-> entry]

\* Configurations: open, with an allowlist, with an allowlist that names no
\* model of the catalog, and open with a configured default model.
SelectionConfigs ==
    Configs \cup
    {[models |-> <<[key |-> <<"openai", "/", "gpt-9">>, alias |-> <<>>]>>, model |-> <<>>],
     [models |-> <<>>, model |-> <<"openai", "/", "gpt-4">>]}

SelectionCalls ==
    {[fn |-> "createModelSelectionState", cfg |-> c, model |-> raw, existing |-> e] :
        c \in SelectionConfigs, raw \in RawValues("model"),
        e \in {NoEntry, SeedEntry(1), PatchedEntry(1)}}

\* sessions.patch { model } is applied to the entry, and the next turn of
\* the session selects its model from the patched entry.
PatchThenSelectModel ==
    /\ fnArgs.fn = "createModelSelectionState"
    /\ ~fnResult.done
    /\ \E patched \in {PatchModel(PatchStart(fnArgs.existing, FirstId, 1),
                                  [AbsentRequest EXCEPT !["model"] = Value(fnArgs.model)],
                                  fnArgs.cfg)},
          d \in {resolveConfiguredModelRef(fnArgs.cfg, DEFAULT_PROVIDER, DEFAULT_MODEL)} :
          fnResult' = Returned(
              [patched   |-> patched,
               selection |-> createModelSelectionState(
                   [cfg |-> fnArgs.cfg, catalog |-> Catalog,
                    sessionEntry |-> IF patched.ok THEN patched.next ELSE fnArgs.existing,
                    defaultProvider |-> d.provider, defaultModel |-> d.model,
                    provider |-> d.provider, model |-> d.model,
                    hasModelDirective |-> FALSE])])
    /\ PureFrame

InitSelection ==
    /\ StoreIdle
    /\ CoordIdle
    /\ StreamIdle
    /\ CronIdle
    /\ ChatIdle
    /\ fnArgs \in SelectionCalls
    /\ fnResult = NoResult

NextSelection == PatchThenSelectModel

SpecSelection == InitSelection /\ [][NextSelection]_vars

(***************************************************************************)
(* Session keys by shape: parseAgentSessionKey and classifySessionKeyShape *)
(* over the keys of up to MaxSegments segments.                            *)
(***************************************************************************)
MaxSegments == 4

KeySegments == {"agent", "main", "x", ""}

ShapedKeys ==
    {<<" ">>} \cup UNION {[1..n -> KeySegments] : n \in 0..MaxSegments}

KeyShapeCalls == {[fn |-> "classifySessionKeyShape", key |-> k] : k \in ShapedKeys}

\* A diagnostic looks at a key: its shape, and what it parses into.
ClassifySessionKey ==
    /\ fnArgs.fn = "classifySessionKeyShape"
    /\ ~fnResult.done
    /\ fnResult' = Returned([shape  |-> classifySessionKeyShape(fnArgs.key),
                             parsed |-> parseAgentSessionKey(fnArgs.key)])
    /\ PureFrame

InitKeyShape ==
    /\ StoreIdle
    /\ CoordIdle
    /\ StreamIdle
    /\ CronIdle
    /\ ChatIdle
    /\ fnArgs \in KeyShapeCalls
    /\ fnResult = NoResult

NextKeyShape == ClassifySessionKey

SpecKeyShape == InitKeyShape /\ [][NextKeyShape]_vars

(***************************************************************************)
(* sanitizeHostExecEnv over base environments and overrides of up to       *)
(* MaxEnvEntries variables each.                                           *)
(***************************************************************************)
MaxEnvEntries == 2

BaseEnvNames ==
    {<<"PATH">>, <<" ", "PATH">>, <<"BASH_ENV">>, <<"ld_", "preload">>,
     <<"NOT", "-", "PORTABLE">>, <<"OK">>}

OverrideNames ==
    {<<"PATH">>, <<"Path">>, <<" ", "PATH">>, <<"bash_env">>, <<" ", "BASH_ENV", " ">>,
     <<"LD_", "PRELOAD">>, <<"NOT", "-", "PORTABLE">>, <<"OK">>}

\* The environments of up to MaxEnvEntries entries, no name twice.
EnvsOf(names, values) ==
    UNION {{env \in [1..n -> {EnvEntry(name, value) : name \in names, value \in values}] :
               \A i, j \in 1..n : env[i].name = env[j].name => i = j} :
           n \in 0..MaxEnvEntries}

BaseEnvs == EnvsOf(BaseEnvNames, {"/usr/bin", "/opt/bin", Undefined})

OverrideSets == {NoOverrides} \cup {Overrides(env) : env \in EnvsOf(OverrideNames, {"/tmp/evil"})}

SanitizeCalls ==
    {[fn |-> "sanitizeHostExecEnv", baseEnv |-> b, overrides |-> o,
      blockPathOverrides |-> block] :
        b \in BaseEnvs, o \in OverrideSets, block \in BOOLEAN}

SanitizeHostExecEnv ==
    /\ fnArgs.fn = "sanitizeHostExecEnv"
    /\ ~fnResult.done
    /\ fnResult' = Returned(sanitizeHostExecEnv(fnArgs.baseEnv, fnArgs.overrides,
                                                 fnArgs.blockPathOverrides))
    /\ PureFrame

InitHostEnv ==
    /\ StoreIdle
    /\ CoordIdle
    /\ StreamIdle
    /\ CronIdle
    /\ ChatIdle
    /\ fnArgs \in SanitizeCalls
    /\ fnResult = NoResult

NextHostEnv == SanitizeHostExecEnv

SpecHostEnv == InitHostEnv /\ [][NextHostEnv]_vars

(***************************************************************************)
(* The end of a reply run (runReplyAgent from the return or the throw of   *)
(* the engine to its own return).  The session store is looked at through  *)
(* the slot of the session key: in the sessionStore object the run was     *)
(* handed, and in the store file.  An error message is the sequence of its *)
(* words and phrases.                                                      *)
(***************************************************************************)
CorruptionPhrase == "function call turn comes immediately after"

RECURSIVE LowerWords(_)
LowerWords(message) ==
    IF message = <<>> THEN <<>>
    ELSE <<IF Head(message) = "Context" THEN "context" ELSE Head(message)>>
            \o LowerWords(Tail(message))

\* /context.*overflow|too large|context window/i.test(message)
isContextOverflow(message) ==
    \E m \in {LowerWords(message)} :
        \/ \E i, j \in 1..Len(m) : i < j /\ m[i] = "context" /\ m[j] = "overflow"
        \/ \E i \in 1..Len(m) : m[i] = "too large"
        \/ \E i \in 1..Len(m) - 1 : m[i] = "context" /\ m[i + 1] = "window"

\* /function call turn comes immediately after/i.test(message)
isSessionCorruption(message) ==
    \E i \in 1..Len(message) : LowerWords(message)[i] = CorruptionPhrase

\* The entry of the session as far as a run writes it.
SessionSlot(sessionId, inputTokens, outputTokens, totalTokens, modelProvider, model,
            updatedAt) ==
    [present |-> TRUE, sessionId |-> sessionId, inputTokens |-> inputTokens,
     outputTokens |-> outputTokens, totalTokens |-> totalTokens,
     modelProvider |-> modelProvider, model |-> model, updatedAt |-> updatedAt]

NoSlot ==
    [present |-> FALSE, sessionId |-> 0, inputTokens |-> NoNum, outputTokens |-> NoNum,
     totalTokens |-> NoNum, modelProvider |-> None, model |-> None, updatedAt |-> 0]

\* runResult.meta.agentMeta?.usage
Usage(input, output, cacheRead, cacheWrite, total) ==
    [reported |-> TRUE, input |-> input, output |-> output, cacheRead |-> cacheRead,
     cacheWrite |-> cacheWrite, total |-> total]

NoUsage == [Usage(NoNum, NoNum, NoNum, NoNum, NoNum) EXCEPT !.reported = FALSE]

\* hasNonzeroUsage(usage): some counter of the usage is above zero
hasNonzeroUsage(usage) ==
    /\ usage.reported
    /\ \E n \in {usage.input, usage.output, usage.cacheRead, usage.cacheWrite,
                 usage.total} : n > 0

\* n ?? 0
OrZero(n) == IF n = NoNum THEN 0 ELSE n

\* promptTokens > 0 ? promptTokens : (usage.total ?? input)
TotalTokens(usage) ==
    Only({IF promptTokens > 0 THEN promptTokens
          ELSE IF usage.total # NoNum THEN usage.total ELSE OrZero(usage.input) :
            promptTokens \in {OrZero(usage.input) + OrZero(usage.cacheRead)
                                + OrZero(usage.cacheWrite)}})

\* a ?? b
Coalesce(a, b) == IF a # None THEN a ELSE b

\* What runReplyAgent returns and leaves behind: threw tells an exception
\* left it, reply is the payload returned ("undefined" for none),
\* sessionStore and file are the slot of the session key in the store object
\* and in the store file, transcript tells the transcript file is there, and
\* drained that the follow-up drain was scheduled.
RunOutcome(threw, reply, sessionStore, file, transcript, drained) ==
    [threw |-> threw, reply |-> reply, sessionStore |-> sessionStore, file |-> file,
     transcript |-> transcript, drained |-> drained]

TextReply(kind, message) == [kind |-> kind, message |-> message]

NoReply == TextReply("undefined", <<>>)

\* The catch block of the engine call.  A failing unlink and a failing save
\* of the reset are swallowed.
EngineFailed(run) ==
    IF /\ isSessionCorruption(run.message)
       /\ run.session.hasSessionKey /\ run.session.hasSessionStore /\ run.session.hasStorePath
    THEN RunOutcome(FALSE, TextReply("session-reset", <<>>), NoSlot,
                    IF run.session.saveThrows THEN run.session.file ELSE NoSlot,
                    /\ run.session.transcript
                    /\ (~run.session.sessionEntry.present \/ run.session.unlinkFails),
                    TRUE)
    ELSE RunOutcome(FALSE,
                    IF isContextOverflow(run.message)
                    THEN TextReply("context-overflow", <<>>)
                    ELSE TextReply("agent-failed", run.message),
                    run.session.sessionStore, run.session.file, run.session.transcript, TRUE)

\* replyPayloads
ReplyPayloads(run) ==
    IF run.suppressMessagingToolReplies THEN <<>>
    ELSE FilterFinalPayloads(run.payloads, run.blockStreamingEnabled,
                             run.didStreamBlockReply, run.blockReplyAborted,
                             run.streamedPayloadKeys)

\* modelUsed and providerUsed
ModelUsed(run) == Coalesce(Coalesce(run.agentMeta.model, run.fallback.model), run.defaultModel)

ProviderUsed(run) ==
    Coalesce(Coalesce(run.agentMeta.provider, run.fallback.provider), run.provider)

\* nextEntry of the usage, and the entry stored when no usage was reported
UsageNextEntry(entry, run) ==
    IF hasNonzeroUsage(run.usage)
    THEN [entry EXCEPT !.inputTokens = OrZero(run.usage.input),
                       !.outputTokens = OrZero(run.usage.output),
                       !.totalTokens = TotalTokens(run.usage),
                       !.modelProvider = ProviderUsed(run),
                       !.model = ModelUsed(run),
                       !.updatedAt = run.now]
    ELSE [entry EXCEPT !.modelProvider = ProviderUsed(run), !.model = ModelUsed(run)]

\* if (sessionStore && sessionKey) { ... } of the usage, up to the return: a
\* save that throws leaves runReplyAgent as an exception.
PersistUsage(run, reply) ==
    Only({IF ~(run.session.hasSessionStore /\ run.session.hasSessionKey) \/ ~entry.present
          THEN RunOutcome(FALSE, reply, run.session.sessionStore, run.session.file,
                          run.session.transcript, TRUE)
          ELSE IF ~run.session.hasStorePath
          THEN RunOutcome(FALSE, reply, UsageNextEntry(entry, run), run.session.file,
                          run.session.transcript, TRUE)
          ELSE IF run.session.saveThrows
          THEN RunOutcome(TRUE, NoReply, UsageNextEntry(entry, run), run.session.file,
                          run.session.transcript, FALSE)
          ELSE RunOutcome(FALSE, reply, UsageNextEntry(entry, run),
                          UsageNextEntry(entry, run), run.session.transcript, TRUE) :
            entry \in {IF run.session.sessionEntry.present THEN run.session.sessionEntry
                       ELSE run.session.sessionStore}})

\* From the return of the engine on.
EngineReturned(run) ==
    IF Len(run.payloads) = 0 \/ Len(ReplyPayloads(run)) = 0
    THEN RunOutcome(FALSE, NoReply, run.session.sessionStore, run.session.file,
                    run.session.transcript, TRUE)
    ELSE PersistUsage(run, TextReply("payloads", <<>>))

runReplyAgentEnd(run) == IF run.engineThrew THEN EngineFailed(run) ELSE EngineReturned(run)

(***************************************************************************)
(* The specification of the end of a reply run: Init draws a run with its  *)
(* engine outcome and session, the action applies runReplyAgent's end.     *)
(***************************************************************************)
MaxTokens == 1

ErrorMessages ==
    {<<CorruptionPhrase>>, <<"context", "overflow">>, <<"Context", "length", "overflow">>,
     <<"request", "too large">>, <<"context", "window">>, <<"rate", "limit">>,
     <<"overflow", "context">>, <<"context", "overflow", CorruptionPhrase>>}

TokenCounts == {NoNum} \cup 0..MaxTokens

Usages ==
    {NoUsage} \cup {Usage(i, o, NoNum, c, t) :
                        i \in TokenCounts, o \in {0, MaxTokens}, c \in {NoNum, MaxTokens},
                        t \in {NoNum, MaxTokens}}

AgentMeta(provider, model) == [provider |-> provider, model |-> model]

StoredSlot == SessionSlot(1, NoNum, NoNum, NoNum, None, None, 0)

RunSessions ==
    {[hasSessionKey |-> k, hasSessionStore |-> s, hasStorePath |-> p,
      sessionEntry |-> IF e THEN StoredSlot ELSE NoSlot,
      sessionStore |-> IF s /\ k THEN StoredSlot ELSE NoSlot,
      file |-> IF k THEN StoredSlot ELSE NoSlot,
      transcript |-> t, saveThrows |-> f, unlinkFails |-> u] :
        k, s, p, e, t, f, u \in BOOLEAN}

FailedRuns ==
    {[fn |-> "runReplyAgent", engineThrew |-> TRUE, message |-> m, session |-> s] :
        m \in ErrorMessages, s \in RunSessions}

ReturnedRuns ==
    {[fn |-> "runReplyAgent", engineThrew |-> FALSE, payloads |-> p,
      suppressMessagingToolReplies |-> sup, blockStreamingEnabled |-> en,
      didStreamBlockReply |-> did, blockReplyAborted |-> ab,
      streamedPayloadKeys |-> IF did THEN {buildPayloadKey(p[i]) : i \in 1..Len(p)} ELSE {},
      usage |-> u, agentMeta |-> meta, fallback |-> fb, defaultModel |-> "claude",
      provider |-> "anthropic", now |-> 1, session |-> s] :
        p \in {<<>>, <<ReplyPayload(<<"a">>, <<>>, None, None)>>}, sup \in BOOLEAN,
        en \in BOOLEAN, did \in BOOLEAN, ab \in BOOLEAN, u \in Usages,
        meta \in {AgentMeta(None, None), AgentMeta("google", "gemini")},
        fb \in {AgentMeta(None, None), AgentMeta("openai", "gpt")},
        s \in {x \in RunSessions : ~x.unlinkFails /\ x.transcript}}

ReplyRuns == FailedRuns \cup ReturnedRuns

\* await runReplyAgent(...), from the engine's return or throw on
RunReplyAgentEnd ==
    /\ fnResult = NoResult
    /\ fnArgs.fn = "runReplyAgent"
    /\ fnResult' = Returned(runReplyAgentEnd(fnArgs))
    /\ PureFrame

InitRun ==
    /\ fnArgs \in ReplyRuns
    /\ fnResult = NoResult
    /\ StoreIdle /\ CoordIdle /\ StreamIdle /\ CronIdle /\ ChatIdle

NextRun == RunReplyAgentEnd

SpecRun == InitRun /\ [][NextRun]_vars

(***************************************************************************)
(* The specification of armTimer and stopTimer over cron services with     *)
(* two jobs.                                                               *)
(***************************************************************************)
TimerClocks == {1, 5, 60010}

WakeTimes == {NoNum, 3, 7, 60005, 60006, 130000}

TimedJob(enabled, nextRunAtMs) ==
    [CronJob(Schedule("every", NoNum, 2, 0), FALSE, JobState(NoNum, nextRunAtMs))
        EXCEPT !.enabled = enabled]

TimedJobs ==
    {[j \in JobIds |-> IF j = JobOrder[1] THEN TimedJob(e1, n1) ELSE TimedJob(e2, n2)] :
        e1 \in BOOLEAN, n1 \in WakeTimes, e2 \in BOOLEAN, n2 \in WakeTimes \ {60005, 7}}

\* The services armTimer and stopTimer find: a timeout is pending exactly
\* when state.timer is set.
TimerCalls ==
    {[fn |-> f, state |-> CronState(t, IF t.armed THEN 1 ELSE 0, jobs, enabled, now)] :
        f \in {"armTimer", "stopTimer"}, t \in {NoTimer, Timer(2)}, jobs \in TimedJobs,
        enabled \in BOOLEAN, now \in TimerClocks}

ArmTimer ==
    /\ fnResult = NoResult
    /\ fnArgs.fn = "armTimer"
    /\ fnResult' = Returned(armTimer(fnArgs.state))
    /\ PureFrame

StopTimer ==
    /\ fnResult = NoResult
    /\ fnArgs.fn = "stopTimer"
    /\ fnResult' = Returned(stopTimer(fnArgs.state))
    /\ PureFrame

InitTimer ==
    /\ fnArgs \in TimerCalls
    /\ fnResult = NoResult
    /\ StoreIdle /\ CoordIdle /\ StreamIdle /\ CronIdle /\ ChatIdle

NextTimer == ArmTimer \/ StopTimer

SpecTimer == InitTimer /\ [][NextTimer]_vars

\* ---------------------------------------------------------------------
\* The cron service started on stores with missed jobs.

\* Job stores a process that was down finds at 2: an every-2 job and a
\* one-shot at 1, both missed; a one-shot that recorded a successful run
\* and was enabled again, beside a missed every-2 job; a missed one-shot
\* beside an every-2 job still marked running.
MissedSeedJobs ==
    {[j \in JobIds |->
        IF j = "j1" THEN CronJob(Schedule("every", NoNum, 2, 0), FALSE, JobState(NoNum, 2))
        ELSE CronJob(Schedule("at", 1, NoNum, NoNum), TRUE, JobState(NoNum, 1))],
     [j \in JobIds |->
        IF j = "j1"
        THEN [CronJob(Schedule("at", 1, NoNum, NoNum), FALSE, JobState(NoNum, 1))
                 EXCEPT !.state.lastStatus = "ok", !.state.lastRunAtMs = 1]
        ELSE CronJob(Schedule("every", NoNum, 2, 0), FALSE, JobState(NoNum, 2))],
     [j \in JobIds |->
        IF j = "j1" THEN CronJob(Schedule("at", 1, NoNum, NoNum), FALSE, JobState(NoNum, 1))
        ELSE CronJob(Schedule("every", NoNum, 2, 0), FALSE, JobState(0, 2))]}

InitRecovery ==
    /\ nowMs = 2
    /\ jobsFile \in MissedSeedJobs
    /\ cronStore = NoJobs
    /\ cronRunning = FALSE
    /\ cronLocked = FALSE
    /\ service = "down"
    /\ tick = NoTick
    /\ runner = NoRunner
    /\ executing = [j \in JobIds |-> 0]
    /\ timer = NoTimer
    /\ StoreIdle
    /\ CoordIdle
    /\ StreamIdle
    /\ PureIdle
    /\ ChatIdle

SpecRecovery == InitRecovery /\ [][NextCron]_vars

(***************************************************************************)
(* Properties of the session store.                                        *)
(***************************************************************************)
\* The step handles a request of the given method.
Handles(op) == clock' = clock + 1 /\ resp'.op = op

\* The store key a handled request works on, and the entry its handler
\* finds there.
StoreKeyOf(r) == IF r.handler = "gateway" THEN ResolveTarget(r.key).storeKeys[1] ELSE r.key

FoundEntry(r) ==
    IF r.handler = "gateway"
    THEN MigrateLegacyKey(store, ResolveTarget(r.key))[StoreKeyOf(r)]
    ELSE LoadSessionEntry(store, r.key)

\* The main session's entry: the entry filed under the main session key or,
\* when there is none, under its legacy alias.
MainSessionEntry(st) ==
    LET k == FindExistingKey(st, ResolveTarget(MainSessionKey).storeKeys) IN
    IF k = <<>> THEN NoEntry ELSE st[k]

\* No field of the request other than f is present.
OnlyField(req, f) == \A g \in PatchFields \ {f} : req[g].kind = "absent"

\* C5: once an entry's spawnedBy is set, every step that leaves the entry in
\* the store (patch, reset, compact, chat.send, turn completion) leaves
\* spawnedBy at that value.
C5_SpawnedByKept ==
    [][\A k \in StoreKeys :
          (store[k].present /\ store[k].spawnedBy # None /\ store'[k].present)
              => store'[k].spawnedBy = store[k].spawnedBy]_vars

\* C6: sessions.patch rejects, storing nothing, a request that clears a set
\* spawnedBy, sets it to a value other than the stored one (values compared
\* after trimming), or sets it on a key that is not a subagent key; a request
\* of spawnedBy alone that repeats the stored value, or sets it for the first
\* time, on a subagent key succeeds and stores the value.
C6_SpawnedByWriteOnce ==
    [][(Handles("sessions.patch") /\ resp'.key # KEmpty /\ resp'.req["spawnedBy"].kind # "absent")
          => LET r       == resp'
                 k       == StoreKeyOf(r)
                 prior   == FoundEntry(r)
                 raw     == r.req["spawnedBy"]
                 trimmed == JoinTokens(Trim(raw.v))
             IN  /\ (raw.kind = "null" /\ prior.spawnedBy # None)
                        => (~r.ok /\ store' = store)
                 /\ (raw.kind = "value" /\ trimmed # "" /\ prior.spawnedBy # None
                        /\ prior.spawnedBy # trimmed)
                        => (~r.ok /\ store' = store)
                 /\ (raw.kind = "value" /\ trimmed # "" /\ ~isSubagentSessionKey(k))
                        => (~r.ok /\ store' = store)
                 /\ (raw.kind = "value" /\ trimmed # "" /\ isSubagentSessionKey(k)
                        /\ prior.spawnedBy \in {None, trimmed} /\ OnlyField(r.req, "spawnedBy"))
                        => (r.ok /\ store'[k].present /\ store'[k].spawnedBy = trimmed)]_vars

\* A patch that would change the recorded spawner has been rejected.
C6_Witness ==
    /\ resp.op = "sessions.patch"
    /\ ~resp.ok
    /\ resp.err = "spawnedBy cannot be changed once set"
    /\ store[KSub].spawnedBy = "a"
    /\ resp.req["spawnedBy"] = Value(<<"b">>)

\* C7: a sessions.patch request rejected on any field -- also on a field
\* checked after earlier fields of the request were accepted -- leaves the
\* persisted store as it was.
C7_RejectedPatchStoresNothing ==
    [][(Handles("sessions.patch") /\ ~resp'.ok) => store' = store]_vars

\* A patch has been rejected after an earlier field of it was accepted.
C7_Witness ==
    /\ resp.op = "sessions.patch"
    /\ ~resp.ok
    /\ resp.applied >= 1

\* C8: a reset files an entry whose sessionId differs from the sessionId of
\* the entry it replaces, with sendPolicy, thinkingLevel and skillsSnapshot
\* of that entry and with abortedLastRun and systemSent false.
C8_ResetFreshSession ==
    [][(Handles("sessions.reset") /\ resp'.ok)
          => LET prior == FoundEntry(resp')
                 next  == store'[StoreKeyOf(resp')]
             IN  /\ next.present
                 /\ prior.present => next.sessionId # prior.sessionId
                 /\ next.sendPolicy = prior.sendPolicy
                 /\ next.thinkingLevel = prior.thinkingLevel
                 /\ next.skillsSnapshot = prior.skillsSnapshot
                 /\ next.abortedLastRun = "false"
                 /\ next.systemSent = "false"]_vars

\* A session with preferences and run flags set has been reset.
C8_Witness ==
    /\ resp.op = "sessions.reset"
    /\ resp.ok
    /\ store[StoreKeyOf(resp)].sessionId >= FirstId
    /\ store[StoreKeyOf(resp)].sendPolicy = "deny"
    /\ store[StoreKeyOf(resp)].thinkingLevel = "low"
    /\ store[StoreKeyOf(resp)].skillsSnapshot = "skills-v1"
    /\ store[StoreKeyOf(resp)].abortedLastRun = "false"

\* C9: a reset keeps the model override (providerOverride, modelOverride)
\* and the thinking, verbose and reasoning levels of the entry it replaces.
C9_ResetKeepsModelOverride ==
    [][(Handles("sessions.reset") /\ resp'.ok)
          => LET prior == FoundEntry(resp')
                 next  == store'[StoreKeyOf(resp')]
             IN  /\ next.providerOverride = prior.providerOverride
                 /\ next.modelOverride = prior.modelOverride
                 /\ next.thinkingLevel = prior.thinkingLevel
                 /\ next.verboseLevel = prior.verboseLevel
                 /\ next.reasoningLevel = prior.reasoningLevel]_vars

\* C10: sessions.delete leaves the main session's entry in the store, and a
\* delete request whose key denotes the main session key is rejected with
\* the store unchanged.
C10_MainSessionNotDeleted ==
    [][Handles("sessions.delete")
          => /\ MainSessionEntry(store') = MainSessionEntry(store)
             /\ (resp'.key # KEmpty /\ ResolveTarget(resp'.key).canonicalKey = MainSessionKey)
                    => (~resp'.ok /\ store' = store)]_vars

(***************************************************************************)
(* Properties of the reply-turn coordinator.                               *)
(***************************************************************************)
\* The step is a runReplyAgent call for an inbound turn.
TurnArrives == arrived' = arrived + 1

\* The inbound turn of the step is eligible to steer and the active,
\* streaming run accepts its prompt.
SteeredIntoActiveRun ==
    /\ TurnArrives
    /\ RunIsActive /\ RunIsStreaming
    /\ lastCall'.shouldSteer /\ lastCall'.steered

\* C1 as stated: while a run is active and streaming, an inbound turn that
\* is eligible to steer and whose prompt the run accepts is injected into
\* the run, the engine is not invoked for it and no follow-up is enqueued.
C1_SteeredTurnOnlyInjected ==
    [][SteeredIntoActiveRun
          => /\ injected' = Append(injected, arrived')
             /\ active' = active /\ started' = started
             /\ queue' = queue]_vars

\* C1, amended: such a turn is injected into the run and the engine is not
\* invoked for it; no follow-up is enqueued when the turn is not flagged for
\* follow-up, and when it is flagged the turn is enqueued as well.
C1_SteeredTurnInjected ==
    [][SteeredIntoActiveRun
          => /\ injected' = Append(injected, arrived')
             /\ active' = active /\ started' = started
             /\ ~lastCall'.shouldFollowup => queue' = queue
             /\ lastCall'.shouldFollowup => queue' = Append(queue, arrived')]_vars

\* A turn has been steered into the streaming run and nothing else, after
\* an earlier turn was steered into it and enqueued too.
C1_Witness ==
    /\ lastCall.shouldSteer /\ lastCall.steered /\ ~lastCall.shouldFollowup
    /\ lastCall.isActive /\ lastCall.isStreaming
    /\ lastCall.did = "returned"
    /\ lastCall.turn \in Range(injected)
    /\ lastCall.turn \notin Range(queue) \cup Range(started)
    /\ \E t \in Range(injected) : t \in Range(queue)

\* C2: with queue mode `queue`, a turn that arrives while a run is active
\* is enqueued and the engine is not invoked for it; the engine is invoked
\* for a queued turn only when no run is active, and for the queued turns
\* in the order they were received.
C2_QueueModeDefersInOrder ==
    [][/\ (TurnArrives /\ RunIsActive /\ lastCall'.mode = "queue")
            => (queue' = Append(queue, arrived') /\ active' = active)
       /\ (queue # <<>> /\ queue' = Tail(queue))
            => (active = {} /\ started' = Append(started, Head(queue)))]_vars

(***************************************************************************)
(* Properties of block streaming.                                          *)
(***************************************************************************)
\* The fingerprint of a payload: trimmed text, media list, reply target.
Fingerprint(p) ==
    <<Trim(p.text),
      IF p.mediaUrls # <<>> THEN p.mediaUrls
      ELSE IF p.mediaUrl # None THEN <<p.mediaUrl>> ELSE <<>>,
      p.replyToId>>

\* Deliveries i and j gave the channel the same fingerprint, i as a
\* streamed block and j after it.
DeliveredAgain(i, j) ==
    /\ i < j
    /\ channel[i].via = "block"
    /\ Fingerprint(channel[i].payload) = Fingerprint(channel[j].payload)

\* C4 as stated: a payload that reached the channel as a streamed block
\* reaches it no second time in that run, neither as a later block nor as a
\* final payload.
C4_StreamedPayloadDeliveredOnce ==
    \A i \in DOMAIN channel, j \in DOMAIN channel : ~DeliveredAgain(i, j)

\* C4, amended: a payload whose streamed delivery completed reaches the
\* channel no second time in that run; no fingerprint is streamed twice,
\* and no block waits in the chain whose fingerprint is sent or waits there
\* already.  (A block whose delivery timed out is not recorded as sent.)
C4_CompletedBlockDeliveredOnce ==
    /\ \A i \in DOMAIN channel, j \in DOMAIN channel :
          DeliveredAgain(i, j) => (channel[i].ack = "timeout" /\ channel[j].via = "final")
    /\ \A m \in DOMAIN blockReplyChain :
          /\ \A i \in DOMAIN channel :
                (channel[i].via = "block" /\ channel[i].ack = "sent")
                    => Fingerprint(channel[i].payload) # Fingerprint(blockReplyChain[m].payload)
          /\ \A n \in DOMAIN blockReplyChain :
                m # n => Fingerprint(blockReplyChain[m].payload)
                            # Fingerprint(blockReplyChain[n].payload)

\* The run is over: a block was streamed, a later block timed out, and of
\* the final payloads the one with the streamed block's fingerprint (its
\* text differing in blanks) was held back while another was delivered.
C4_Witness ==
    /\ runResult.stage = "done"
    /\ blockReplyAborted
    /\ \E i \in DOMAIN channel :
          /\ channel[i].via = "block" /\ channel[i].ack = "sent"
          /\ \E f \in Range(runResult.payloads) :
                /\ f # channel[i].payload
                /\ Fingerprint(f) = Fingerprint(channel[i].payload)
    /\ \E j \in DOMAIN channel : channel[j].via = "final"

(***************************************************************************)
(* Properties of the cron timer.                                           *)
(***************************************************************************)
\* C3: no job id has two executions in flight at the same time, whatever
\* the interleaving of timer ticks, missed-job recovery and direct
\* executions; and a tick leaves out of its due set every job whose
\* runningAtMs is set when the tick loads the store.
C3_JobNeverExecutesTwiceAtOnce ==
    /\ [](\A j \in JobIds : executing[j] <= 1)
    /\ [][(tick.phase = "waiting" /\ tick'.phase = "executing")
             => \A j \in Range(tick'.due) : jobsFile[j].state.runningAtMs = NoNum]_vars

(***************************************************************************)
(* Routing claims.                                                         *)
(***************************************************************************)
RouteReturned == fnArgs.fn = "resolveAgentRoute" /\ fnResult.done

\* The tier a binding matches an event at: 1 peer, 2 guild, 3 account,
\* 4 channel; 0 when it does not match.
BindingTier(b, ev) ==
    IF ~matchesChannel(b.match, ev.channel)
       \/ ~matchesAccountId(b.match.accountId, normalizeAccountId(ev.accountId))
    THEN 0
    ELSE IF matchesPeer(b.match, ev.peer) THEN 1
    ELSE IF Trim(ev.guildId) # <<>> /\ matchesGuild(b.match, ev.guildId) THEN 2
    ELSE IF ~IsPlainMatch(b.match) THEN 0
    ELSE IF JoinTokens(Trim(b.match.accountId)) = "*" THEN 4
    ELSE 3

\* C11: when several bindings match an inbound event the route is the
\* first declared binding of the best tier that has a match (peer before
\* guild before account before channel), wherever the bindings of the other
\* tiers are declared, and matchedBy names that tier.
C11_TierDecidesRoute ==
    RouteReturned =>
        \A j \in DOMAIN fnArgs.cfg.bindings :
            (/\ BindingTier(fnArgs.cfg.bindings[j], fnArgs.event) # 0
             /\ \A i \in DOMAIN fnArgs.cfg.bindings :
                    \/ BindingTier(fnArgs.cfg.bindings[i], fnArgs.event) = 0
                    \/ BindingTier(fnArgs.cfg.bindings[i], fnArgs.event)
                           > BindingTier(fnArgs.cfg.bindings[j], fnArgs.event)
                    \/ (/\ BindingTier(fnArgs.cfg.bindings[i], fnArgs.event)
                               = BindingTier(fnArgs.cfg.bindings[j], fnArgs.event)
                        /\ j <= i))
            => /\ fnResult.value.agentId = normalizeAgentId(fnArgs.cfg.bindings[j].agentId)
               /\ fnResult.value.matchedBy
                      = TierNames[BindingTier(fnArgs.cfg.bindings[j], fnArgs.event)]

\* A binding of a better tier declared after a matching binding of a worse
\* tier has won the route.
C11_Witness ==
    /\ RouteReturned
    /\ \E i, j \in DOMAIN fnArgs.cfg.bindings :
          /\ i < j
          /\ BindingTier(fnArgs.cfg.bindings[j], fnArgs.event) # 0
          /\ BindingTier(fnArgs.cfg.bindings[i], fnArgs.event)
                 > BindingTier(fnArgs.cfg.bindings[j], fnArgs.event)
          /\ fnResult.value.agentId = normalizeAgentId(fnArgs.cfg.bindings[j].agentId)
          /\ fnResult.value.matchedBy \in {"binding.peer", "binding.guild"}

SessionKeysReturned == fnArgs.fn = "buildAgentPeerSessionKey" /\ fnResult.done

IsDirectMessage == fnArgs.peerKind \in {None, "dm"}

\* C12: with dmScope main or unset, the session key of a direct message is
\* agent:<agentId>:<mainKey> whatever the channel and the peer id: two
\* messages of one agent with different channels and peers get the same key.
C12_MainScopeKeyIgnoresChannelAndPeer ==
    (SessionKeysReturned /\ IsDirectMessage /\ fnArgs.dmScope \in {None, "main"}) =>
        /\ fnResult.value["first"] = fnResult.value["second"]
        /\ fnResult.value["first"]
               = "agent:" \o normalizeAgentId(fnArgs.agentId) \o ":"
                 \o normalizeMainKey(fnArgs.mainKey)

C12_Witness ==
    /\ SessionKeysReturned
    /\ IsDirectMessage
    /\ fnArgs.dmScope = None
    /\ normalizeToken(fnArgs.first.channel) # normalizeToken(fnArgs.second.channel)
    /\ Trim(fnArgs.first.peerId) # <<>>
    /\ Trim(fnArgs.second.peerId) # <<>>
    /\ Trim(fnArgs.first.peerId) # Trim(fnArgs.second.peerId)
    /\ fnResult.value["first"] = fnResult.value["second"]

PerChannelPeerKeys ==
    SessionKeysReturned /\ IsDirectMessage /\ fnArgs.dmScope = "per-channel-peer"

\* C13, as claimed: with dmScope per-channel-peer and one agent, two
\* (channel, peerId) pairs get the same session key only if the channels
\* are exactly equal and the peer ids are exactly equal.
C13_SameKeyOnlyForEqualPairs ==
    (PerChannelPeerKeys /\ fnResult.value["first"] = fnResult.value["second"]) =>
        /\ fnArgs.first.channel = fnArgs.second.channel
        /\ fnArgs.first.peerId = fnArgs.second.peerId

ColonFree(toks) == ":" \notin Range(toks)

\* C13, amended: with dmScope per-channel-peer and one agent, two pairs
\* whose peer ids are not blank and whose channel names hold no ":" get the
\* same session key only if the channels are equal once trimmed and
\* lowercased (a blank channel being "unknown") and the peer ids are equal
\* once trimmed; pairs whose peer ids are blank all get the main key.
C13_SameKeyOnlyForSameNormalizedPairs ==
    PerChannelPeerKeys =>
        /\ (/\ Trim(fnArgs.first.peerId) # <<>>
            /\ Trim(fnArgs.second.peerId) # <<>>
            /\ ColonFree(fnArgs.first.channel)
            /\ ColonFree(fnArgs.second.channel)
            /\ fnResult.value["first"] = fnResult.value["second"])
           => /\ ChannelOrUnknown(fnArgs.first.channel)
                     = ChannelOrUnknown(fnArgs.second.channel)
              /\ Trim(fnArgs.first.peerId) = Trim(fnArgs.second.peerId)
        /\ (Trim(fnArgs.first.peerId) = <<>> /\ Trim(fnArgs.second.peerId) = <<>>)
           => /\ fnResult.value["first"] = fnResult.value["second"]
              /\ fnResult.value["first"]
                     = buildAgentMainSessionKey(fnArgs.agentId, fnArgs.mainKey)

\* Two pairs that differ only in the case of the channel and the blanks
\* around the peer id share a key, two pairs of different peers do not.
C13_Witness ==
    /\ PerChannelPeerKeys
    /\ fnArgs.first.channel # fnArgs.second.channel
    /\ fnArgs.first.peerId # fnArgs.second.peerId
    /\ Trim(fnArgs.first.peerId) # <<>>
    /\ ColonFree(fnArgs.first.channel)
    /\ ColonFree(fnArgs.second.channel)
    /\ fnResult.value["first"] = fnResult.value["second"]

HasNoAccountId(b) == Trim(b.match.accountId) = <<>>

\* C14: a binding without accountId matches the events of the default
\* account only: it gives the route of an event of the default account that
\* nothing else matches, and it never gives the route of an event of
\* another account, which falls through to the other bindings and tiers.
C14_MissingAccountIdIsDefaultAccount ==
    RouteReturned =>
        \A i \in DOMAIN fnArgs.cfg.bindings :
            HasNoAccountId(fnArgs.cfg.bindings[i]) =>
                /\ normalizeAccountId(fnArgs.event.accountId) # DEFAULT_ACCOUNT_ID
                   => fnResult.value.agentId
                          # normalizeAgentId(fnArgs.cfg.bindings[i].agentId)
                /\ (/\ Trim(fnArgs.event.accountId) = <<>>
                    /\ Len(fnArgs.cfg.bindings) = 1
                    /\ matchesChannel(fnArgs.cfg.bindings[i].match, fnArgs.event.channel)
                    /\ IsPlainMatch(fnArgs.cfg.bindings[i].match))
                   => /\ fnResult.value.agentId
                             = normalizeAgentId(fnArgs.cfg.bindings[i].agentId)
                      /\ fnResult.value.matchedBy = "binding.account"

\* An event of the account "biz" on the channel of a binding without
\* accountId was routed to the default agent.
C14_Witness ==
    /\ RouteReturned
    /\ normalizeAccountId(fnArgs.event.accountId) = "biz"
    /\ \E i \in DOMAIN fnArgs.cfg.bindings :
          /\ HasNoAccountId(fnArgs.cfg.bindings[i])
          /\ matchesChannel(fnArgs.cfg.bindings[i].match, fnArgs.event.channel)
    /\ fnResult.value.matchedBy = "default"

(***************************************************************************)
(* Clearing a field twice.                                                 *)
(***************************************************************************)
ClearsAgain == fnArgs.fn = "sessions.patch" /\ Handles("sessions.patch") /\ clock >= 1

\* C15: a sessions.patch request {field: null} sent a second time gets the
\* answer of the first and leaves every stored entry as the first left it,
\* apart from updatedAt, for every clearable field and every starting entry;
\* a request that clears a spawnedBy that holds a value is rejected every
\* time, storing nothing.
C15_ClearingTwiceIsClearingOnce ==
    /\ [][ClearsAgain =>
             /\ resp'.ok = resp.ok
             /\ resp'.err = resp.err
             /\ \A k \in StoreKeys :
                   store'[k] = [store[k] EXCEPT !.updatedAt = store'[k].updatedAt]]_vars
    /\ [][(/\ fnArgs.fn = "sessions.patch"
           /\ Handles("sessions.patch")
           /\ resp'.key # KEmpty
           /\ resp'.req["spawnedBy"].kind = "null"
           /\ FoundEntry(resp').spawnedBy # None)
          => (~resp'.ok /\ store' = store)]_vars

\* thinkingLevel, set in every seeded main entry, has been cleared by two
\* requests that both succeeded.
C15_Witness ==
    /\ fnArgs.fn = "sessions.patch"
    /\ fnArgs.req["thinkingLevel"].kind = "null"
    /\ fnArgs.key = KMain
    /\ clock = 2
    /\ resp.ok
    /\ store[KMain].present
    /\ store[KMain].sessionId = 1
    /\ store[KMain].thinkingLevel = None
    /\ store[KMain].sendPolicy = "deny"
    /\ store[KMain].updatedAt = 1

(***************************************************************************)
(* Model allowlist claims.                                                 *)
(***************************************************************************)
AllowedSetReturned == fnArgs.fn = "buildAllowedModelSet" /\ fnResult.done

HasAllowlist == fnArgs.cfg.models # <<>>

\* The key of the configured default model, when there is one.
DefaultModelKeys ==
    IF fnArgs.defaultModel # "" /\ fnArgs.defaultProvider # ""
    THEN {modelKey(fnArgs.defaultProvider, fnArgs.defaultModel)} ELSE {}

CatalogKeys == {modelKey(e.provider, e.id) : e \in fnArgs.catalog}

\* The keys the entries of the allowlist stand for.
AllowlistedModelKeys ==
    {modelKey(ref.provider, ref.model) :
        ref \in {x \in {parseModelRef(fnArgs.cfg.models[i].key, fnArgs.defaultProvider) :
                          i \in DOMAIN fnArgs.cfg.models} : x.ok}}

\* No model of the catalog is allowlisted or the default.
NoCatalogModelAllowed ==
    CatalogKeys \cap (AllowlistedModelKeys \cup DefaultModelKeys) = {}

AllowlistRespected ==
    /\ DefaultModelKeys \subseteq fnResult.value.allowedKeys
    /\ (AllowlistedModelKeys \cap CatalogKeys) \subseteq fnResult.value.allowedKeys
    /\ fnResult.value.allowedKeys \subseteq (AllowlistedModelKeys \cup DefaultModelKeys)
    /\ ~fnResult.value.allowAny

\* C16, as claimed: with an explicit allowlist the allowed keys hold the
\* default model and the allowlisted models of the catalog, hold no model
\* that is neither allowlisted nor the default, and allowAny is false.
C16_AllowlistBoundsAllowedKeys ==
    (AllowedSetReturned /\ HasAllowlist) => AllowlistRespected

\* C16, amended: the same, for an allowlist that allows at least one model
\* of the catalog (the allowlisted models and the default taken together).
C16_AllowlistBoundsAllowedKeysOfCatalog ==
    (AllowedSetReturned /\ HasAllowlist /\ ~NoCatalogModelAllowed) => AllowlistRespected

\* An allowlist of one catalog model with a default outside the catalog:
\* both are allowed, the other catalog model is not.
C16_Witness ==
    /\ AllowedSetReturned
    /\ HasAllowlist
    /\ fnArgs.catalog = Catalog
    /\ fnResult.value.allowedKeys = {"openai/gpt-4", "claude-cli/opus-4.5"}
    /\ ~fnResult.value.allowAny

\* C17: an allowlist that allows no model of the catalog fails open --
\* allowAny, with every catalog model and the default allowed -- and
\* allowAny is reported only then or when no allowlist is configured.
C17_EmptyAllowedSetFailsOpen ==
    AllowedSetReturned =>
        /\ (HasAllowlist /\ NoCatalogModelAllowed)
           => /\ fnResult.value.allowAny
              /\ fnResult.value.allowedKeys = CatalogKeys \cup DefaultModelKeys
              /\ fnResult.value.allowedCatalog = fnArgs.catalog
        /\ fnResult.value.allowAny => (~HasAllowlist \/ NoCatalogModelAllowed)

\* An allowlist naming only a model the catalog does not have has opened
\* the catalog.
C17_Witness ==
    /\ AllowedSetReturned
    /\ HasAllowlist
    /\ NoCatalogModelAllowed
    /\ fnArgs.catalog = Catalog
    /\ fnResult.value.allowAny
    /\ "openai/gpt-3.5" \in fnResult.value.allowedKeys

(***************************************************************************)
(* The model override of sessions.patch.                                   *)
(***************************************************************************)
\* C18: a sessions.patch whose model resolves to the configured default
\* removes providerOverride and modelOverride from the entry; one whose
\* model is outside the allowed set, when the set is not allow-any, is
\* rejected and stores nothing; any other allowed model sets both override
\* fields to the resolved provider and model.
C18_ModelPatchStoresOverride ==
    [][(/\ Handles("sessions.patch")
        /\ resp'.key # KEmpty
        /\ resp'.req["model"].kind = "value")
       => LET r        == resp'
              k        == StoreKeyOf(r)
              default  == resolveConfiguredModelRef(config, DEFAULT_PROVIDER, DEFAULT_MODEL)
              resolved == resolveModelRefFromString(r.req["model"].v, default.provider,
                                                    config.models)
              allowed  == buildAllowedModelSet(config, Catalog, default.provider,
                                               default.model)
              isAllowed == \/ allowed.allowAny
                           \/ modelKey(resolved.provider, resolved.model)
                                  \in allowed.allowedKeys
          IN  resolved.ok =>
                /\ ~isAllowed => (~r.ok /\ store' = store)
                /\ (isAllowed /\ OnlyField(r.req, "model")) => r.ok
                /\ (isAllowed /\ r.ok /\ resolved = default)
                       => /\ store'[k].present
                          /\ store'[k].providerOverride = None
                          /\ store'[k].modelOverride = None
                /\ (isAllowed /\ r.ok /\ resolved # default)
                       => /\ store'[k].present
                          /\ store'[k].providerOverride = resolved.provider
                          /\ store'[k].modelOverride = resolved.model]_vars

\* A patch naming the default model has removed the override of an entry
\* that had one.
C18_Witness ==
    /\ resp.op = "sessions.patch"
    /\ resp.ok
    /\ resp.key = KMain
    /\ resp.req["model"] = Value(<<"opus-4.5">>)
    /\ store[KMain].present
    /\ store[KMain].groupActivation = "always"
    /\ store[KMain].providerOverride = None
    /\ store[KMain].modelOverride = None

(***************************************************************************)
(* The next run of an `every` schedule.                                    *)
(***************************************************************************)
\* ceil(a / b) for a >= 0 and b >= 1: the least k with k * b >= a
CeilDiv(a, b) == CHOOSE k \in 0..a : k * b >= a /\ \A m \in 0..(k - 1) : m * b < a

\* An `every` schedule with an interval of at least 1 and an anchor that is
\* not after now has been computed.
EveryFromAnchor ==
    /\ fnArgs.fn = "computeNextRunAtMs"
    /\ fnResult.done
    /\ fnArgs.schedule.kind = "every"
    /\ fnArgs.schedule.everyMs >= 1
    /\ fnArgs.schedule.anchorMs # NoNum
    /\ fnArgs.schedule.anchorMs <= fnArgs.now

\* C19, as claimed: for an `every` schedule with anchor <= now and
\* interval >= 1 the next run is anchor + ceil((now - anchor) / interval) *
\* interval.
C19_NextRunIsCeiling ==
    EveryFromAnchor =>
        fnResult.value = fnArgs.schedule.anchorMs
                         + CeilDiv(fnArgs.now - fnArgs.schedule.anchorMs,
                                   fnArgs.schedule.everyMs) * fnArgs.schedule.everyMs

\* C19, amended: that holds for anchor < now; for now = anchor the next run
\* is anchor + interval: the number of intervals is never less than one.
C19_NextRunIsCeilingOfAtLeastOne ==
    EveryFromAnchor =>
        /\ fnArgs.schedule.anchorMs < fnArgs.now
           => fnResult.value = fnArgs.schedule.anchorMs
                               + CeilDiv(fnArgs.now - fnArgs.schedule.anchorMs,
                                         fnArgs.schedule.everyMs) * fnArgs.schedule.everyMs
        /\ fnArgs.schedule.anchorMs = fnArgs.now
           => fnResult.value = fnArgs.schedule.anchorMs + fnArgs.schedule.everyMs

\* Anchor 0, interval 2, now 5 (the claim's example, in units of 500 ms)
\* gives 6.
C19_Witness ==
    /\ EveryFromAnchor
    /\ fnArgs.schedule.anchorMs = 0
    /\ fnArgs.schedule.everyMs = 2
    /\ fnArgs.now = 5
    /\ fnResult.value = 6

(***************************************************************************)
(* Loading a store.                                                        *)
(***************************************************************************)
StoreLoaded == fnArgs.fn = "loadCronStore" /\ fnResult.done

\* The text is one document: an opening brace first, its closing brace
\* last, no brace in between.
IsStoreDocument(text) ==
    \E n \in 0..MaxFileTokens, pre, post \in 0..MaxFileTokens :
        /\ Len(text) = pre + n + post + 2
        /\ \A i \in 1..pre : text[i] = " "
        /\ text[pre + 1] = "{"
        /\ \A i \in (pre + 2)..(pre + n + 1) : text[i] \in {"j1", " "}
        /\ text[pre + n + 2] = "}"
        /\ \A i \in (pre + n + 3)..Len(text) : text[i] = " "

\* C20: loading a store whose file does not exist gives the empty store;
\* loading one whose file exists and is not valid JSON fails with a parse
\* error, and is never answered with a store.
C20_CorruptStoreIsNotEmptyStore ==
    StoreLoaded =>
        /\ ~fnArgs.file.exists
           => (fnResult.value.ok /\ fnResult.value.store = EmptyCronStore)
        /\ (fnArgs.file.exists /\ ~IsStoreDocument(fnArgs.file.text))
           => /\ ~fnResult.value.ok
              /\ fnResult.value.error = "Failed to parse cron store"

\* The file "{ j1" -- an object that is never closed -- has failed to load.
C20_Witness ==
    /\ StoreLoaded
    /\ fnArgs.file.exists
    /\ fnArgs.file.text = <<"{", " ", "j1">>
    /\ ~fnResult.value.ok

(***************************************************************************)
(* Aborting a chat run.                                                    *)
(***************************************************************************)
\* The step is a chat.abort request handled by the bridge.
ChatAbortHandled == clock' = clock + 1 /\ resp'.op = "chat.abort"

\* C21: chat.abort for a run id that has a registered abort controller and
\* a matching session key signals the abort, removes the run id from the
\* abort-controller, buffer and delta maps and broadcasts one chat event
\* with state aborted; with a mismatching session key it returns an error
\* and changes none of these maps; for an unknown run id it reports
\* aborted=false and broadcasts nothing.
C21_AbortRemovesRunAndBroadcasts ==
    [][ChatAbortHandled =>
         LET runId      == lastAbort'.runId
             sessionKey == lastAbort'.sessionKey
             controller == chatAbortControllers[runId]
         IN  /\ (controller.registered /\ controller.sessionKey = sessionKey)
                   => /\ resp'.ok /\ resp'.err = "aborted=true"
                      /\ controller \in abortSignalled'
                      /\ ~chatAbortControllers'[runId].registered
                      /\ runId \notin chatRunBuffers' \cup chatDeltaSentAt'
                      /\ chatBroadcasts' =
                             Append(chatBroadcasts,
                                    [runId |-> runId, sessionKey |-> sessionKey,
                                     state |-> "aborted"])
             /\ (controller.registered /\ controller.sessionKey # sessionKey)
                   => /\ ~resp'.ok
                      /\ UNCHANGED <<chatAbortControllers, chatRunBuffers,
                                     chatDeltaSentAt>>
             /\ ~controller.registered
                   => /\ resp'.ok /\ resp'.err = "aborted=false"
                      /\ chatBroadcasts' = chatBroadcasts]_vars

\* A run that had buffered text and a delta time was aborted: one event
\* went out, and what the maps hold of the other run id is still there.
C21_Witness ==
    /\ resp.op = "chat.abort" /\ resp.err = "aborted=true"
    /\ Len(chatBroadcasts) = 1
    /\ chatBroadcasts[1].runId = lastAbort.runId
    /\ lastAbort.runId \in { r.runId : r \in runs }
    /\ chatRunBuffers = IdempotencyKeys \ {lastAbort.runId}
    /\ chatDeltaSentAt = IdempotencyKeys \ {lastAbort.runId}

(***************************************************************************)
(* Session keys by shape.                                                  *)
(***************************************************************************)
KeyShapeReturned == fnArgs.fn = "classifySessionKeyShape" /\ fnResult.done

\* At least three colon-separated segments, none of them empty, the first
\* of them `agent`.
IsWellFormedAgentKey(key) ==
    /\ Len(key) >= 3
    /\ \A i \in 1..Len(key) : key[i] # ""
    /\ key[1] = "agent"

IsBlankKey(key) == key \in {<<>>, <<"">>, <<" ">>}

\* C22: a key is treated as agent-scoped (classified `agent`, parsed into
\* agentId and rest) only if it has at least three colon-separated
\* segments, all non-empty, the first of them `agent`; a key that starts
\* with `agent:` and has too few or empty segments is malformed_agent, an
\* empty or blank key is missing, and every other key is legacy_or_alias.
C22_AgentScopedOnlyWhenWellFormed ==
    KeyShapeReturned =>
        LET key    == fnArgs.key
            shape  == fnResult.value.shape
            parsed == fnResult.value.parsed
        IN  /\ (shape = "agent" \/ parsed.ok) => IsWellFormedAgentKey(key)
            /\ IsBlankKey(key) => shape = "missing"
            /\ (~IsBlankKey(key) /\ ~IsWellFormedAgentKey(key)
                   /\ Len(key) >= 2 /\ key[1] = "agent") => shape = "malformed_agent"
            /\ (~IsBlankKey(key) /\ ~IsWellFormedAgentKey(key)
                   /\ ~(Len(key) >= 2 /\ key[1] = "agent")) => shape = "legacy_or_alias"

(***************************************************************************)
(* The environment handed to a host command.                               *)
(***************************************************************************)
EnvSanitized == fnArgs.fn = "sanitizeHostExecEnv" /\ fnResult.done

\* The name is a blocked key or starts with a blocked prefix, in any case,
\* or is not portable.
IsForbiddenName(name) ==
    \/ ~IsPortableKey(name)
    \/ toUpperCase(name) \in HOST_DANGEROUS_ENV_KEYS
    \/ \E prefix \in HOST_DANGEROUS_ENV_PREFIXES : StartsWith(toUpperCase(name), prefix)

NoForbiddenNameReturned == \A name \in DOMAIN fnResult.value : ~IsForbiddenName(name)

\* env.PATH of an object given as a function by name, or as its entries
VarOf(env, name) == IF name \in DOMAIN env THEN env[name] ELSE Undefined

EntryOf(entries, name) ==
    IF \E i \in 1..Len(entries) : entries[i].name = name
    THEN (CHOOSE e \in Range(entries) : e.name = name).value
    ELSE Undefined

\* The value of the last entry of the base environment that holds a string
\* and whose trimmed name is the name asked for.
LastTrimmedEntryOf(entries, name) ==
    LET at == {i \in 1..Len(entries) :
                  Trim(entries[i].name) = name /\ entries[i].value # Undefined}
    IN  IF at = {} THEN Undefined
        ELSE entries[CHOOSE i \in at : \A j \in at : j <= i].value

\* C23 as stated: sanitizeHostExecEnv never returns a variable whose name is
\* a blocked key or starts with a blocked prefix (compared without regard
\* to case) or is not a portable name, whether it came from the base
\* environment or from the overrides; with PATH-override blocking on, the
\* returned PATH equals the base environment's PATH whatever the overrides
\* contain.
C23_NoForbiddenNameAndBasePath ==
    EnvSanitized =>
        /\ NoForbiddenNameReturned
        /\ fnArgs.blockPathOverrides
              => VarOf(fnResult.value, <<"PATH">>) = EntryOf(fnArgs.baseEnv, <<"PATH">>)

\* C23, amended: no returned variable has such a name; with PATH-override
\* blocking on, the returned PATH is the value of the last variable of the
\* base environment whose name, trimmed, is PATH, whatever the overrides
\* contain.
C23_NoForbiddenNameAndTrimmedBasePath ==
    EnvSanitized =>
        /\ NoForbiddenNameReturned
        /\ fnArgs.blockPathOverrides
              => VarOf(fnResult.value, <<"PATH">>) =
                     LastTrimmedEntryOf(fnArgs.baseEnv, <<"PATH">>)

\* Overrides that name PATH in another case and a blocked key in lower case
\* were sent against a base environment that has a PATH and a blocked key;
\* the base PATH came back.
C23_Witness ==
    /\ EnvSanitized
    /\ fnArgs.blockPathOverrides
    /\ fnArgs.overrides.present
    /\ \E e \in Range(fnArgs.overrides.entries) : e.name = <<"Path">>
    /\ \E e \in Range(fnArgs.overrides.entries) : e.name = <<"bash_env">>
    /\ \E e \in Range(fnArgs.baseEnv) : e.name = <<"BASH_ENV">> /\ e.value # Undefined
    /\ EntryOf(fnArgs.baseEnv, <<"PATH">>) = "/usr/bin"
    /\ VarOf(fnResult.value, <<"PATH">>) = "/usr/bin"

(***************************************************************************)
(* One run per session key.                                                *)
(***************************************************************************)
\* C24: at no time are two agent-execution invocations in flight for the
\* same session key: a turn that arrives while a run is active for the key
\* is steered into the active run or enqueued, whatever the queue mode and
\* the steer and follow-up flags.
C24_OneRunPerSessionKey ==
    /\ Cardinality(active) <= 1
    /\ (lastCall.isActive /\ lastCall.turn = arrived)
          => lastCall.did \in {"returned", "enqueued"}

(***************************************************************************)
(* The store document a run saves at its end.                              *)
(***************************************************************************)
\* The step is a run that ends and saves the usage of its session.
TurnPersists == turn.active /\ resp'.op = "turn.complete"

\* C25: when the run for key A completes and persists its entry, a change
\* to another key B of the same store file, saved while A's run was in
\* flight, is still in the persisted store afterwards: the document saved
\* is one loaded afresh, not the snapshot held from before the run.
C25_RunEndKeepsOtherKeys ==
    [][TurnPersists => \A key \in StoreKeys \ {turn.key} : store'[key] = store[key]]_vars

(***************************************************************************)
(* The follow-up drain at the end of a run.                                *)
(***************************************************************************)
\* The step is the end of a run that runReplyAgent started.
ReplyRunEnds == \E r \in active : ~r.followup /\ active' = active \ {r}

\* C26: every run started for a queue key triggers the follow-up drain of
\* the key when it ends, on every exit path, a failure while persisting
\* included, so that a turn enqueued during the run is executed in the end:
\* a run that ends with turns waiting leaves the drain of the key running.
C26_RunEndTriggersDrain ==
    [][(ReplyRunEnds /\ queue # <<>>) => draining']_vars

(***************************************************************************)
(* What the end of a run persists and replies.                             *)
(***************************************************************************)

\* A reply run has ended.
RunEnded == fnArgs.fn = "runReplyAgent" /\ fnResult # NoResult

\* The session of the run has an entry in the store, and the store can be
\* written.
HasStoreEntry ==
    /\ fnArgs.session.hasSessionKey /\ fnArgs.session.hasSessionStore
    /\ fnArgs.session.hasStorePath /\ ~fnArgs.session.saveThrows
    /\ fnArgs.session.sessionStore.present

\* C27: after every successful run for a session that has a store entry, the
\* store file holds the run's input and output tokens, as total the prompt
\* tokens when these are positive and the reported total otherwise, and the
\* provider and the model actually used; also when the run produced no final
\* payload.
C27_UsagePersistedAfterEveryRun ==
    (RunEnded /\ ~fnArgs.engineThrew /\ HasStoreEntry /\ hasNonzeroUsage(fnArgs.usage))
        => \E promptTokens \in {OrZero(fnArgs.usage.input) + OrZero(fnArgs.usage.cacheRead)
                                    + OrZero(fnArgs.usage.cacheWrite)} :
            /\ fnResult.value.file.inputTokens = OrZero(fnArgs.usage.input)
            /\ fnResult.value.file.outputTokens = OrZero(fnArgs.usage.output)
            /\ promptTokens > 0 => fnResult.value.file.totalTokens = promptTokens
            /\ (promptTokens = 0 /\ fnArgs.usage.total # NoNum)
                    => fnResult.value.file.totalTokens = fnArgs.usage.total
            /\ fnResult.value.file.modelProvider = ProviderUsed(fnArgs)
            /\ fnResult.value.file.model = ModelUsed(fnArgs)

\* C30: when the engine throws, the run ends with exactly one text payload:
\* on the corruption signature the store entry and the transcript are
\* deleted and the reply is the reset apology, on a context overflow the
\* reply suggests starting fresh, and otherwise the reply is the generic
\* failure message with the error text.
C30_EngineFailureReplies ==
    (RunEnded /\ fnArgs.engineThrew)
        => /\ ~fnResult.value.threw
           /\ IF isSessionCorruption(fnArgs.message)
              THEN /\ fnResult.value.reply = TextReply("session-reset", <<>>)
                   /\ ~fnResult.value.sessionStore.present
                   /\ ~fnResult.value.file.present
                   /\ ~fnResult.value.transcript
              ELSE IF isContextOverflow(fnArgs.message)
              THEN fnResult.value.reply = TextReply("context-overflow", <<>>)
              ELSE fnResult.value.reply = TextReply("agent-failed", fnArgs.message)

(***************************************************************************)
(* Streaming after a block timeout, and the order of the streamed blocks.  *)
(***************************************************************************)
\* The step hands deliveries to the channel, final payloads only.
OnlyFinalDelivered ==
    /\ Len(channel') >= Len(channel)
    /\ SubSeq(channel', 1, Len(channel)) = channel
    /\ \A i \in (Len(channel) + 1)..Len(channel') : channel'[i].via = "final"

\* The final payloads of the run whose fingerprint no streamed block has
\* delivered.
UnstreamedFinalPayloads ==
    SelectSeq(runResult.payloads,
              LAMBDA p : \A i \in DOMAIN channel :
                            (channel[i].via = "block" /\ channel[i].ack = "sent")
                                => Fingerprint(channel[i].payload) # Fingerprint(p))

\* What a block timeout leaves of streaming: the run goes on as it was, the
\* timeout is remembered, and from then on the channel is handed final
\* payloads only.
StreamingStopsRunGoesOn ==
    /\ (\E reached \in BOOLEAN : BlockSendTimesOut(reached))
            => (blockReplyAborted' /\ runResult' = runResult)
    /\ blockReplyAborted
            => (blockReplyAborted' /\ OnlyFinalDelivered)

C29_BlocksDeliveredInReceiptOrder ==
    [][/\ blockReplyChain' # blockReplyChain
            => \/ /\ blocks' = blocks + 1
                  /\ Len(blockReplyChain') = Len(blockReplyChain) + 1
                  /\ SubSeq(blockReplyChain', 1, Len(blockReplyChain)) = blockReplyChain
               \/ /\ blocks' = blocks
                  /\ blockReplyChain # <<>>
                  /\ blockReplyChain' = Tail(blockReplyChain)
       /\ (sending' /\ ~sending) => blockReplyChain' = blockReplyChain
       /\ (sending /\ sending')
            => (blockReplyChain' # <<>> /\ Head(blockReplyChain') = Head(blockReplyChain))
       /\ (Len(channel') > Len(channel) /\ channel'[Len(channel')].via = "block")
            => /\ sending /\ ~sending'
               /\ channel' = Append(channel, Delivery("block", Head(blockReplyChain).payload,
                                                      channel'[Len(channel')].ack))
               /\ blockReplyChain' = Tail(blockReplyChain)]_vars

\* Two blocks were received while the first was being delivered, and all
\* three reached the channel.
C29_Witness ==
    /\ blockReplyChain = <<>>
    /\ blocks = MaxBlocks
    /\ Len(channel) = MaxBlocks
    /\ \A i \in DOMAIN channel : channel[i].via = "block" /\ channel[i].ack = "sent"

(***************************************************************************)
(* Deleting or resetting a session that has a run in flight.               *)
(***************************************************************************)
\* isEmbeddedPiRunActive(sessionId) after the step
RunActiveAfter(sessionId) ==
    \/ \E r \in runs' : r.sessionId = sessionId
    \/ turn'.active /\ turn'.engine /\ turn'.sessionEntry.sessionId = sessionId

\* C31: the store entry of a session is never deleted or reset to a new
\* sessionId while a run for its sessionId is still active: after every
\* step the entry is still there under its sessionId, or the run has ended.
C31_ActiveSessionNotDeletedOrReset ==
    [][\A k \in StoreKeys :
          (store[k].present /\ isEmbeddedPiRunActive(store[k].sessionId))
              => \/ \E k2 \in StoreKeys :
                      store'[k2].present /\ store'[k2].sessionId = store[k].sessionId
                 \/ ~RunActiveAfter(store[k].sessionId)]_vars

(***************************************************************************)
(* The phases of a cron tick.                                              *)
(***************************************************************************)
\* Some enabled job of the store has a next run.
HasNextWake(jobs) ==
    \E j \in JobIds : jobs[j].present /\ jobs[j].enabled /\ jobs[j].state.nextRunAtMs # NoNum

\* The tick ends with this step: state.running is cleared.
TickEnds == cronRunning /\ ~cronRunning'

\* C32: in every tick the due jobs are marked with runningAtMs and the
\* store is persisted before any of them starts; they execute one at a
\* time in the order of the due set; only after the last one has ended are
\* the results applied to the reloaded store and the store persisted; and
\* at the end of every tick, a failed one included, the timer is armed for
\* the next wake time of the store.
C32_TickPhasesInOrder ==
    [][/\ (tick.phase = "waiting" /\ tick'.phase = "executing")
            => /\ tick'.due = findDueJobs(jobsFile, nowMs)
               /\ \A j \in Range(tick'.due) : jobsFile'[j].state.runningAtMs = nowMs
               /\ tick'.current = None /\ tick'.results = <<>>
       /\ (tick'.phase = "executing" /\ tick'.current # tick.current)
            => \/ /\ tick.current = None
                  /\ tick'.current = Head(tick.due)
                  /\ tick'.due = tick.due /\ tick'.results = tick.results
               \/ /\ tick'.current = None
                  /\ tick'.due = Tail(tick.due)
                  /\ Len(tick'.results) = Len(tick.results) + 1
                  /\ tick'.results[Len(tick'.results)].jobId = tick.current
       /\ (tick.phase = "executing" /\ tick'.phase = "idle")
            => /\ tick.current = None
               /\ tick.due = <<>> \/ tick.results = <<>>
               /\ jobsFile' \in {jobsFile, cronStore'}
               /\ \A i \in DOMAIN tick.results :
                     jobsFile[tick.results[i].jobId].present
                        => \/ ~cronStore'[tick.results[i].jobId].present
                           \/ /\ cronStore'[tick.results[i].jobId].state.runningAtMs = NoNum
                              /\ cronStore'[tick.results[i].jobId].state.lastStatus # None
       /\ (tick.phase = "executing" /\ tick'.phase = "executing")
            => (cronRunning' /\ ~timer'.armed)
       /\ TickEnds => (tick'.phase = "idle" /\ (timer'.armed <=> HasNextWake(cronStore')))]_vars

\* A tick has executed both jobs, the first of the due set first.
C32_Witness ==
    /\ tick.phase = "executing"
    /\ tick.due = <<>>
    /\ tick.current = None
    /\ Len(tick.results) = 2
    /\ tick.results[1].jobId = JobOrder[1]
    /\ tick.results[2].jobId = JobOrder[2]

(***************************************************************************)
(* One-shot jobs after their run, and jobs whose execution throws.         *)
(***************************************************************************)
\* The results of the tick are applied with this step.
TickApplies == tick.phase = "executing" /\ tick'.phase = "idle"

\* The statuses with which a run of job j ends in this step: a result of
\* the tick applied to the reloaded job, or executeJob finishing.
EndingStatuses(j) ==
    {tick.results[i].status :
        i \in {n \in DOMAIN tick.results :
                 TickApplies /\ tick.results[n].jobId = j /\ jobsFile[j].present}}
    \cup (IF runner.job = j /\ runner'.job # j THEN {cronStore'[j].state.lastStatus}
          ELSE {})

\* The one-shot job was removed after its run or has a run on record that
\* ended ok.
EndedOk(job) ==
    /\ job.schedule.kind = "at"
    /\ ~job.present \/ job.state.lastStatus = "ok"

\* C33: when the run of an `at` job ends with status ok the job is removed
\* from the store if deleteAfterRun is set, and is otherwise disabled with
\* no nextRunAtMs; from then on no tick takes it into its due set and no
\* recovery of missed jobs takes it up.  An `at` job whose run ends with
\* another status stays in the store, enabled as it was.
C33_OneShotJobRunsOnce ==
    [][\A j \in JobIds :
          /\ \A status \in EndingStatuses(j) :
                (cronStore[j].schedule.kind = "at" \/ jobsFile[j].schedule.kind = "at")
                    => IF status = "ok"
                       THEN IF cronStore'[j].deleteAfterRun
                            THEN ~cronStore'[j].present
                            ELSE /\ cronStore'[j].present
                                 /\ ~cronStore'[j].enabled
                                 /\ cronStore'[j].state.nextRunAtMs = NoNum
                       ELSE /\ cronStore'[j].present
                            /\ cronStore'[j].enabled = IF TickApplies THEN jobsFile[j].enabled
                                                      ELSE cronStore[j].enabled
          /\ (EndedOk(jobsFile[j]) /\ tick.phase = "waiting" /\ tick'.phase = "executing")
                => j \notin Range(tick'.due)
          /\ (EndedOk(jobsFile[j]) /\ service = "down" /\ service' = "recovering")
                => j \notin Range(runner'.pending)]_vars

\* The one-shot job ran ok in a tick or in the recovery of missed jobs, and
\* is on record disabled.
C33_Witness ==
    /\ service = "up"
    /\ \E j \in JobIds :
          /\ cronStore[j].present
          /\ cronStore[j].schedule.kind = "at"
          /\ cronStore[j].state.lastStatus = "ok"
          /\ ~cronStore[j].enabled
          /\ cronStore[j].state.lastRunAtMs # NoNum
          /\ cronStore[j].state.lastRunAtMs < nowMs
          /\ runner.direct = 0
          /\ jobsFile[j] = cronStore[j]

EnabledNextRuns(state) ==
    {state.jobs[j].state.nextRunAtMs :
        j \in {i \in JobIds : /\ state.jobs[i].present /\ state.jobs[i].enabled
                              /\ state.jobs[i].state.nextRunAtMs # NoNum}}

MissedOnStartup(jobs, now) ==
    {j \in JobIds :
        /\ jobs[j].present /\ jobs[j].enabled
        /\ jobs[j].state.runningAtMs = NoNum
        /\ jobs[j].state.nextRunAtMs # NoNum /\ jobs[j].state.nextRunAtMs <= now
        /\ ~(jobs[j].schedule.kind = "at" /\ jobs[j].state.lastStatus = "ok")}

\* C36: when the service starts, exactly the enabled jobs that are not
\* marked running and are due at or before now, one-shots whose last run
\* was ok left out, are lined up, each once; while the service recovers a
\* job is started only as the first of the line, which it then leaves, and
\* only when no other job is executing; timer-driven operation begins only
\* with the line empty and the last job ended, and until then no timer is
\* armed and no tick runs.
C36_MissedJobsRunOnceOnStartup ==
    [][/\ (service = "down" /\ service' = "recovering")
            => /\ Range(runner'.pending) = MissedOnStartup(jobsFile, nowMs)
               /\ Len(runner'.pending) = Cardinality(Range(runner'.pending))
               /\ runner'.job = None
       /\ service = "recovering"
            => /\ ~timer.armed /\ tick = NoTick /\ ~cronRunning
               /\ \A j \in JobIds :
                     executing'[j] > executing[j]
                        => /\ \A i \in JobIds : executing[i] = 0
                           /\ runner.pending # <<>>
                           /\ j = Head(runner.pending)
                           /\ runner'.pending = Tail(runner.pending)
                           /\ executing'[j] = 1
               /\ runner'.pending # runner.pending
                        => /\ runner.pending # <<>>
                           /\ executing'[Head(runner.pending)] = 1
                           /\ runner'.pending = Tail(runner.pending)
               /\ service' # "recovering"
                        => /\ service' = "up"
                           /\ runner.pending = <<>>
                           /\ \A i \in JobIds : executing[i] = 0]_vars

\* The service recovers with a job still in the line after the first missed
\* job has ended, and left out a due one-shot whose last run was ok.
C36_Witness ==
    /\ service = "recovering"
    /\ runner.job = None
    /\ runner.pending # <<>>
    /\ \E j \in JobIds : cronStore[j].present /\ cronStore[j].state.lastRunAtMs = nowMs

\* The service recovers and has left a due, enabled one-shot whose last run
\* was ok out of the line.
C36_OneShotLeftOut ==
    /\ service = "recovering"
    /\ \E j \in JobIds :
          /\ cronStore[j].present /\ cronStore[j].enabled
          /\ cronStore[j].schedule.kind = "at" /\ cronStore[j].state.lastStatus = "ok"
          /\ cronStore[j].state.nextRunAtMs # NoNum /\ cronStore[j].state.nextRunAtMs <= nowMs
          /\ cronStore[j].state.runningAtMs = NoNum
          /\ j \notin Range(runner.pending) /\ runner.job # j
          /\ executing[j] = 0


\* C37: a next run that computeNextRunAtMs returns is after now, whatever
\* the schedule and its anchor.
C37_NextRunIsAfterNow ==
    (fnArgs.fn = "computeNextRunAtMs" /\ fnResult.done /\ fnResult.value # NoNum)
        => fnResult.value > fnArgs.now


\* C38: chat.send invokes the agent for an idempotency key only when no
\* earlier chat.send with that key has invoked it: a key with a cached
\* response is answered from the cache, and while the run of a request is
\* in flight a second request with its key does not start another.
C38_ChatSendStartsAgentOncePerKey ==
    [][\A key \in StoreKeys, clientRunId \in IdempotencyKeys :
          (ChatSendWithin(MaxSends, key, clientRunId) /\ resp'.err # "cached")
             => /\ clientRunId \notin dedupe
                /\ ~\E r \in runs : r.chat /\ r.runId = clientRunId]_vars


\* The node operations that start an agent run on a session key.
RunStartingOps == {"chat.send", "voice.transcript", "agent.request"}

\* C39: chat.send, voice.transcript and agent.request on a key that has a
\* store entry leave the entry's sessionId, sendPolicy, providerOverride,
\* modelOverride and spawnedBy as they were.
C39_RunStartKeepsUserSetFields ==
    [][(/\ clock' # clock
        /\ resp'.op \in RunStartingOps
        /\ resp'.err # "cached"
        /\ store[resp'.key].present)
          => /\ store'[resp'.key].present
             /\ store'[resp'.key].sessionId = store[resp'.key].sessionId
             /\ store'[resp'.key].sendPolicy = store[resp'.key].sendPolicy
             /\ store'[resp'.key].providerOverride = store[resp'.key].providerOverride
             /\ store'[resp'.key].modelOverride = store[resp'.key].modelOverride
             /\ store'[resp'.key].spawnedBy = store[resp'.key].spawnedBy]_vars


\* sessions.patch has accepted a model and stored it as the override of the
\* entry, and the next turn has selected its model.
OverrideAccepted ==
    /\ fnArgs.fn = "createModelSelectionState"
    /\ fnResult.done
    /\ fnResult.value.patched.ok
    /\ fnResult.value.patched.next.modelOverride # None

\* C40: the override sessions.patch accepted and stored is the model the
\* next turn selects, and the turn leaves the override in the entry.
C40_AcceptedOverrideIsSelected ==
    OverrideAccepted =>
        /\ fnResult.value.selection.provider = fnResult.value.patched.next.providerOverride
        /\ fnResult.value.selection.model = fnResult.value.patched.next.modelOverride
        /\ ~fnResult.value.selection.resetModelOverride
        /\ fnResult.value.selection.sessionEntry.modelOverride
               = fnResult.value.patched.next.modelOverride

====
